---- MODULE Spec2Model ----
(***************************************************************************)
(* A model of anyFAST's privileged hosts manager, its privilege broker and *)
(* its background health checker (src/rust/src-tauri/src).                  *)
(*                                                                         *)
(* Text is modelled as a sequence of atoms.  An atom is an indivisible     *)
(* piece of text whose character classes are known: a whitespace           *)
(* character, a '#', a word such as "a.test".  A line is a sequence of     *)
(* atoms without a line terminator, a file is a sequence of lines together *)
(* with its byte-order mark and its trailing line terminator.              *)
(***************************************************************************)
EXTENDS Integers, Sequences, FiniteSets, TLC

VARIABLES
    hosts,                      \* the hosts file: [bom, lines, nl]
    hosts0,                     \* the hosts file at the start of the run
    platform,                   \* the cfg the binary was built for
    SERVICE_AVAILABLE,          \* hosts_ops.rs: OnceLock<AtomicBool>
    MACOS_HELPER_PATH,          \* hosts_ops.rs: OnceLock<RwLock<Option<PathBuf>>>
    MACOS_HELPER_NEEDS_REFRESH, \* hosts_ops.rs: AtomicBool
    call,                       \* the last call made and what it did
    pinned,                     \* domain -> ip of the last successful write not cleared since
    nops                        \* number of calls made so far

hostsVars == <<hosts, hosts0, platform, SERVICE_AVAILABLE, MACOS_HELPER_PATH,
               MACOS_HELPER_NEEDS_REFRESH, call, pinned, nops>>

VARIABLES
    config,                     \* AppConfig as ConfigManager::load returns it
    clock,                      \* current_timestamp(): seconds since the epoch
    task,                       \* the task HealthChecker::start spawned and its maps
    baselines,                  \* HealthChecker.baselines: domain -> latency in ms
    status,                     \* HealthChecker.status
    tick,                       \* what the last iteration of the loop saw and did
    switch_log,                 \* domain -> the times of its successful switches
    hc_steps                    \* [ticks, starts, history, network]: iterations and
                                \* starts so far, what each check of the running task
                                \* marked, and the condition of the network

hcVars == <<config, clock, task, baselines, status, tick, switch_log, hc_steps>>

VARIABLES
    sw,                         \* should_switch_after_silent_window called in a row
    cc                          \* processes rewriting the hosts file side by side

VARIABLES
    am,                         \* lib.rs: auto_mode_token, the tasks the commands spawned
    et,                         \* endpoint_tester.rs, models.rs: the call under examination
    pipe                        \* service/pipe_server.rs: the connection and what went over it

appVars == <<am, et, pipe>>

vars == <<hostsVars, hcVars, sw, cc, appVars>>

-----------------------------------------------------------------------------
(* Atoms and their character classes *)

SP == " "
TAB == "\t"
HASH == "#"
SLASH == "/"
CTRL == "U+0007"
UALNUM == "U+00E9"
BOMCHAR == "U+FEFF"

\* Every atom of the model, in ascending byte order of the text it stands for.
AtomOrder ==
    <<CTRL, TAB, SP, HASH, SLASH, "1.1.1.1", "127.0.0.1", "2.2.2.2", "999.9.9.9",
      "BEGIN", "END", "a.test", "anyFAST", "b.test", "localhost", "note",
      UALNUM, BOMCHAR>>

Atoms == {AtomOrder[i] : i \in 1..Len(AtomOrder)}

AtomRank(a) == CHOOSE i \in 1..Len(AtomOrder) : AtomOrder[i] = a

\* char::is_whitespace
is_whitespace(a) == a \in {SP, TAB}

\* char::is_control
is_control(a) == a \in {CTRL, TAB}

\* char::is_alphanumeric() || c == '-' || c == '.' || c == '_', for every char of the atom
is_alphanumeric_or_punct(a) ==
    a \in {"1.1.1.1", "127.0.0.1", "2.2.2.2", "999.9.9.9", "BEGIN", "END", "a.test",
           "anyFAST", "b.test", "localhost", "note", UALNUM}

\* every char of the atom is in [A-Za-z0-9._-]
is_ascii_hostname_atom(a) ==
    a \in {"1.1.1.1", "127.0.0.1", "2.2.2.2", "999.9.9.9", "BEGIN", "END", "a.test",
           "anyFAST", "b.test", "localhost", "note"}

\* str::parse::<IpAddr>().is_ok()
parse_IpAddr(s) == Len(s) = 1 /\ s[1] \in {"1.1.1.1", "127.0.0.1", "2.2.2.2"}

MARKER_BEGIN == <<HASH, SP, "BEGIN", SP, "anyFAST">>
MARKER_END == <<HASH, SP, "END", SP, "anyFAST">>
MARKER_LINE == <<HASH, SP, "anyFAST">>

-----------------------------------------------------------------------------
(* str operations *)

Last(s) == s[Len(s)]
Front(s) == SubSeq(s, 1, Len(s) - 1)

RECURSIVE trim_start(_)
trim_start(s) ==
    IF s # <<>> /\ is_whitespace(Head(s)) THEN trim_start(Tail(s)) ELSE s

RECURSIVE trim_end(_)
trim_end(s) ==
    IF s # <<>> /\ is_whitespace(Last(s)) THEN trim_end(Front(s)) ELSE s

\* str::trim
trim(s) == trim_end(trim_start(s))

\* str::split_whitespace: the maximal runs of non-whitespace atoms
RECURSIVE split_ws(_, _, _)
split_ws(s, cur, acc) ==
    IF s = <<>> THEN (IF cur = <<>> THEN acc ELSE Append(acc, cur))
    ELSE IF is_whitespace(Head(s))
         THEN split_ws(Tail(s), <<>>, IF cur = <<>> THEN acc ELSE Append(acc, cur))
         ELSE split_ws(Tail(s), Append(cur, Head(s)), acc)

split_whitespace(s) == split_ws(s, <<>>, <<>>)

\* str::starts_with('#')
starts_with_hash(s) == s # <<>> /\ s[1] = HASH

\* str::contains(pat)
contains(s, pat) ==
    \E i \in 1..(Len(s) - Len(pat) + 1) : SubSeq(s, i, i + Len(pat) - 1) = pat

\* Ord for String: byte-wise lexicographic order
RECURSIVE str_lt(_, _)
str_lt(s, t) ==
    IF t = <<>> THEN FALSE
    ELSE IF s = <<>> THEN TRUE
    ELSE IF Head(s) = Head(t) THEN str_lt(Tail(s), Tail(t))
    ELSE AtomRank(Head(s)) < AtomRank(Head(t))

-----------------------------------------------------------------------------
(* hosts_manager.rs: validation *)

validate_ip(ip) == IF parse_IpAddr(ip) THEN "Ok" ELSE "InvalidIp"

validate_domain(domain) ==
    IF domain = <<>> THEN "InvalidDomain"
    ELSE IF \E i \in 1..Len(domain) : is_whitespace(domain[i]) \/ is_control(domain[i])
         THEN "InvalidDomain"
    ELSE IF ~(\A i \in 1..Len(domain) : is_alphanumeric_or_punct(domain[i]))
         THEN "InvalidDomain"
    ELSE "Ok"

-----------------------------------------------------------------------------
(* hosts_manager.rs: ParsedHosts *)

NoBindings == [d \in {} |-> <<>>]

\* HashMap::insert
insert(m, k, v) == [x \in (DOMAIN m) \cup {k} |-> IF x = k THEN v ELSE m[x]]

\* HashMap::remove
remove(m, k) == [x \in (DOMAIN m) \ {k} |-> m[x]]

\* One step of the loop over content.lines() in ParsedHosts::parse.
\* st = [before, after, bindings, in_block, found_block, unclosed]
parse_line(st, line) ==
    LET trimmed == trim(line)
        parts == split_whitespace(trimmed)
    IN  IF trimmed = MARKER_BEGIN
        THEN [st EXCEPT !.in_block = TRUE, !.found_block = TRUE]
        ELSE IF trimmed = MARKER_END
        THEN [st EXCEPT !.in_block = FALSE]
        ELSE IF st.in_block
        THEN [st EXCEPT
                !.bindings = IF trimmed # <<>> /\ ~starts_with_hash(trimmed) /\ Len(parts) >= 2
                             THEN insert(@, parts[2], parts[1]) ELSE @,
                !.unclosed = Append(@, line)]
        ELSE IF st.found_block
        THEN [st EXCEPT !.after = Append(@, line)]
        ELSE IF contains(trimmed, MARKER_LINE) /\ trimmed # <<>> /\ ~starts_with_hash(trimmed)
             THEN [st EXCEPT
                     !.bindings = IF Len(parts) >= 2
                                  THEN insert(@, parts[2], parts[1]) ELSE @]
             ELSE [st EXCEPT !.before = Append(@, line)]

RECURSIVE parse_loop(_, _)
parse_loop(st, lines) ==
    IF lines = <<>> THEN st ELSE parse_loop(parse_line(st, Head(lines)), Tail(lines))

\* The unclosed-block recovery of ParsedHosts::parse: the in-block lines that
\* do not look like a binding go to after_block.
RECURSIVE recover_unclosed(_, _)
recover_unclosed(after, unclosed) ==
    IF unclosed = <<>> THEN after
    ELSE LET line == Head(unclosed)
             trimmed == trim(line)
             parts == split_whitespace(trimmed)
             keep == IF trimmed = <<>> \/ starts_with_hash(trimmed) THEN TRUE
                     ELSE Len(parts) < 2 \/ ~parse_IpAddr(parts[1])
         IN  recover_unclosed(IF keep THEN Append(after, line) ELSE after, Tail(unclosed))

ParseStart ==
    [before |-> <<>>, after |-> <<>>, bindings |-> NoBindings,
     in_block |-> FALSE, found_block |-> FALSE, unclosed |-> <<>>]

\* ParsedHosts::parse of hosts_manager.rs
parse(lines) ==
    LET st == parse_loop(ParseStart, lines)
    IN  [before_block |-> st.before,
         after_block |-> IF st.in_block /\ st.unclosed # <<>>
                         THEN recover_unclosed(st.after, st.unclosed) ELSE st.after,
         anyrouter_bindings |-> st.bindings]

\* A sort of the bindings that puts the greatest domain first
RECURSIVE sorted_keys_descending(_)
sorted_keys_descending(S) ==
    IF S = {} THEN <<>>
    ELSE LET greatest == CHOOSE k \in S : \A o \in S \ {k} : str_lt(o, k)
         IN  <<greatest>> \o sorted_keys_descending(S \ {greatest})

\* sorted_bindings.sort_by_key(|(domain, _)| *domain)
RECURSIVE sorted_keys(_)
sorted_keys(S) ==
    IF S = {} THEN <<>>
    ELSE LET least == CHOOSE k \in S : \A o \in S \ {k} : str_lt(k, o)
         IN  <<least>> \o sorted_keys(S \ {least})

\* A binding line with the domain before the ip
binding_line_domain_first(ip, domain) == domain \o <<TAB>> \o ip \o <<TAB>> \o MARKER_LINE

\* format!("{}\t{}\t{}", ip, domain, MARKER_LINE)
binding_line(ip, domain) == ip \o <<TAB>> \o domain \o <<TAB>> \o MARKER_LINE

\* A render that forgets after_block
render_lines_without_after(p) ==
    LET keys == sorted_keys(DOMAIN p.anyrouter_bindings)
    IN  p.before_block
        \o (IF keys = <<>> THEN <<>>
            ELSE <<MARKER_BEGIN>>
                 \o [i \in 1..Len(keys) |->
                       binding_line(p.anyrouter_bindings[keys[i]], keys[i])]
                 \o <<MARKER_END>>)

\* ParsedHosts::render, before lines.join("\n"): the lines vector
render_lines(p) ==
    LET keys == sorted_keys(DOMAIN p.anyrouter_bindings)
        block == IF keys = <<>> THEN <<>>
                 ELSE (IF p.before_block # <<>> /\ Last(p.before_block) # <<>>
                       THEN << <<>> >> ELSE <<>>)
                      \o <<MARKER_BEGIN>>
                      \o [i \in 1..Len(keys) |->
                            binding_line(p.anyrouter_bindings[keys[i]], keys[i])]
                      \o <<MARKER_END>>
    IN  p.before_block \o block \o p.after_block

-----------------------------------------------------------------------------
(* Files.  A file is [bom, lines, nl]: whether it starts with a UTF-8 BOM,    *)
(* what str::lines() yields for the text after the BOM, and whether the text *)
(* ends with a line terminator.                                              *)

\* lines.join("\n"), as the file it makes when written: str::lines() drops one
\* final empty line
join_lines(ls) ==
    IF ls = <<>> THEN [bom |-> FALSE, lines |-> <<>>, nl |-> FALSE]
    ELSE IF Last(ls) = <<>>
         THEN [bom |-> FALSE, lines |-> Front(ls), nl |-> Len(ls) > 1]
         ELSE [bom |-> FALSE, lines |-> ls, nl |-> FALSE]

\* ParsedHosts::render
render(p) == join_lines(render_lines(p))

\* read_hosts_content(..).lines(): the BOM is stripped
read_hosts_content(file) == file.lines

\* fs::read_to_string(..).lines(): the BOM stays at the head of the first line
read_to_string(file) ==
    IF ~file.bom THEN file.lines
    ELSE IF file.lines = <<>> THEN << <<BOMCHAR>> >>
    ELSE << <<BOMCHAR>> \o Head(file.lines) >> \o Tail(file.lines)

None == <<>>
Some(x) == <<x>>

\* The fallback loop of read_binding_from_path: the first line that is neither
\* empty nor a comment and whose second token is the domain
RECURSIVE first_plain_binding(_, _)
first_plain_binding(lines, domain) ==
    IF lines = <<>> THEN None
    ELSE LET line == trim(Head(lines))
             parts == split_whitespace(line)
         IN  IF line # <<>> /\ ~starts_with_hash(line) /\ Len(parts) >= 2 /\ parts[2] = domain
             THEN Some(parts[1])
             ELSE first_plain_binding(Tail(lines), domain)

\* A read that scans the plain lines first and asks the managed map last
read_binding_plain_first(file, domain) ==
    LET content == read_to_string(file)
        parsed == parse(content)
        plain == first_plain_binding(content, domain)
    IN  IF plain # None THEN plain
        ELSE IF domain \in DOMAIN parsed.anyrouter_bindings
        THEN Some(parsed.anyrouter_bindings[domain])
        ELSE None

\* HostsManager::read_binding_from_path
read_binding_from_path(file, domain) ==
    LET content == read_to_string(file)
        parsed == parse(content)
    IN  IF domain \in DOMAIN parsed.anyrouter_bindings
        THEN Some(parsed.anyrouter_bindings[domain])
        ELSE first_plain_binding(content, domain)

\* hosts_ops::read_binding, HostsManager::read_binding
read_binding(file, domain) == read_binding_from_path(file, domain)

-----------------------------------------------------------------------------
(* hosts_manager.rs: the mutations.  fs is what the file system does in this *)
(* call: "ok", "PermissionDenied" (OpenOptions::open is refused) or "Io"      *)
(* (the rename of atomic_write fails).  A result is                           *)
(* [res, file, count, open_called].                                           *)

FsOutcomes == {"ok", "PermissionDenied", "Io"}

Result(res, file, count, open_called) ==
    [res |-> res, file |-> file, count |-> count, open_called |-> open_called]

\* The tail shared by the mutations: open, lock, read, parse, change, render,
\* atomic_write.  change(bindings) gives the new bindings.
\* bindings: a sequence of [domain, ip]
RECURSIVE insert_all(_, _)
insert_all(m, bindings) ==
    IF bindings = <<>> THEN m
    ELSE insert_all(insert(m, Head(bindings).domain, Head(bindings).ip), Tail(bindings))

RECURSIVE remove_all(_, _)
remove_all(m, domains) ==
    IF domains = {} THEN m
    ELSE LET d == CHOOSE x \in domains : TRUE
         IN  remove_all(remove(m, d), domains \ {d})

Range(s) == {s[i] : i \in 1..Len(s)}

\* HostsBinding { domain, ip }
Binding(d, i) == [domain |-> d, ip |-> i]

\* What an operation does to anyrouter_bindings and the number it reports:
\* ch = [kind, bindings, domains, counted]
Change(kind, bindings, domains, counted) ==
    [kind |-> kind, bindings |-> bindings, domains |-> domains, counted |-> counted]

\* insert for the writes, remove for the clears, clear() for clear_all
changed_bindings(m, ch) ==
    CASE ch.kind = "insert" -> insert_all(m, ch.bindings)
      [] ch.kind = "remove" -> remove_all(m, Range(ch.domains))
      [] ch.kind = "clear" -> NoBindings

\* Ok(bindings.len()), Ok(count) of the removals that found a binding,
\* Ok(count) of the bindings cleared; 1 stands for Ok(())
changed_count(m, ch) ==
    CASE ch.counted = "one" -> 1
      [] ch.counted = "len" -> Len(ch.bindings)
      [] ch.counted = "present" -> Cardinality(Range(ch.domains) \cap DOMAIN m)
      [] ch.counted = "all" -> Cardinality(DOMAIN m)

\* The file rendered from the changed bindings
rewritten(parsed, ch) ==
    Result("Ok",
           render([parsed EXCEPT !.anyrouter_bindings = changed_bindings(@, ch)]),
           changed_count(parsed.anyrouter_bindings, ch), TRUE)

\* open, lock_exclusive, read_hosts_content, parse, change, render,
\* atomic_write of HostsManager
locked_rewrite(file, fs, ch) ==
    IF fs = "PermissionDenied" THEN Result("PermissionDenied", file, 0, TRUE)
    ELSE IF fs = "Io" THEN Result("Io", file, 0, TRUE)
    ELSE rewritten(parse(read_hosts_content(file)), ch)

\* for binding in bindings { validate_ip(&binding.ip)?; validate_domain(&binding.domain)?; }
RECURSIVE validate_all(_)
validate_all(bindings) ==
    IF bindings = <<>> THEN "Ok"
    ELSE IF validate_ip(Head(bindings).ip) # "Ok" THEN "InvalidIp"
    ELSE IF validate_domain(Head(bindings).domain) # "Ok" THEN "InvalidDomain"
    ELSE validate_all(Tail(bindings))

\* HostsManager::write_binding_to_path
write_binding_to_path(file, domain, ip, fs) ==
    IF validate_ip(ip) # "Ok" THEN Result("InvalidIp", file, 0, FALSE)
    ELSE IF validate_domain(domain) # "Ok" THEN Result("InvalidDomain", file, 0, FALSE)
    ELSE locked_rewrite(file, fs, Change("insert", <<Binding(domain, ip)>>, <<>>, "one"))

\* HostsManager::write_bindings_batch_to_path
write_bindings_batch_to_path(file, bindings, fs) ==
    IF bindings = <<>> THEN Result("Ok", file, 0, FALSE)
    ELSE IF validate_all(bindings) # "Ok" THEN Result(validate_all(bindings), file, 0, FALSE)
    ELSE locked_rewrite(file, fs, Change("insert", bindings, <<>>, "len"))

\* HostsManager::clear_binding_from_path
clear_binding_from_path(file, domain, fs) ==
    locked_rewrite(file, fs, Change("remove", <<>>, <<domain>>, "one"))

\* HostsManager::clear_bindings_batch_from_path
clear_bindings_batch_from_path(file, domains, fs) ==
    IF domains = <<>> THEN Result("Ok", file, 0, FALSE)
    ELSE locked_rewrite(file, fs, Change("remove", <<>>, domains, "present"))

\* HostsManager::clear_all_anyfast_bindings_from_path
clear_all_anyfast_bindings_from_path(file, fs) ==
    locked_rewrite(file, fs, Change("clear", <<>>, <<>>, "all"))

-----------------------------------------------------------------------------
(* bin/anyfast-helper-macos.rs: the setuid helper.  It has its own copy of   *)
(* ParsedHosts, without the unclosed-block recovery, and takes no lock.      *)
(* A helper result is [res, file, count, open_called] with res "Ok" (exit 0) *)
(* or "Err" (exit 1).                                                        *)

\* ParsedHosts::parse of anyfast-helper-macos.rs
helper_parse(lines) ==
    LET st == parse_loop(ParseStart, lines)
    IN  [before_block |-> st.before,
         after_block |-> st.after,
         anyrouter_bindings |-> st.bindings]

\* read_hosts_content, parse, change, render, atomic_write of the helper
helper_rewrite(file, fs, ch) ==
    IF fs # "ok" THEN Result("Err", file, 0, TRUE)
    ELSE rewritten(helper_parse(read_hosts_content(file)), ch)

\* write_binding of the helper
helper_write_binding(file, domain, ip, fs) ==
    IF validate_ip(ip) # "Ok" \/ validate_domain(domain) # "Ok"
    THEN Result("Err", file, 0, FALSE)
    ELSE helper_rewrite(file, fs, Change("insert", <<Binding(domain, ip)>>, <<>>, "one"))

\* write_bindings_batch of the helper
helper_write_bindings_batch(file, bindings, fs) ==
    IF validate_all(bindings) # "Ok" THEN Result("Err", file, 0, FALSE)
    ELSE helper_rewrite(file, fs, Change("insert", bindings, <<>>, "len"))

\* clear_binding of the helper: rewrites only when the binding was there
helper_clear_binding(file, domain, fs) ==
    IF fs # "ok" THEN Result("Err", file, 0, TRUE)
    ELSE IF domain \in DOMAIN helper_parse(read_hosts_content(file)).anyrouter_bindings
    THEN helper_rewrite(file, fs, Change("remove", <<>>, <<domain>>, "one"))
    ELSE Result("Ok", file, 0, TRUE)

\* clear_bindings_batch of the helper
helper_clear_bindings_batch(file, domains, fs) ==
    helper_rewrite(file, fs, Change("remove", <<>>, domains, "present"))

\* clear_all_anyfast_bindings of the helper
helper_clear_all_anyfast_bindings(file, fs) ==
    helper_rewrite(file, fs, Change("clear", <<>>, <<>>, "all"))

-----------------------------------------------------------------------------
(* The operations by name.  a = [domain, ip, bindings, domains].              *)

MutatingOps ==
    {"write_binding", "write_bindings_batch", "clear_binding",
     "clear_bindings_batch", "clear_all_anyfast_bindings"}

\* HostsManager::<op>
manager_op(op, a, file, fs) ==
    CASE op = "write_binding" -> write_binding_to_path(file, a.domain, a.ip, fs)
      [] op = "write_bindings_batch" -> write_bindings_batch_to_path(file, a.bindings, fs)
      [] op = "clear_binding" -> clear_binding_from_path(file, a.domain, fs)
      [] op = "clear_bindings_batch" -> clear_bindings_batch_from_path(file, a.domains, fs)
      [] op = "clear_all_anyfast_bindings" -> clear_all_anyfast_bindings_from_path(file, fs)
      [] op = "flush_dns" -> Result(IF fs = "ok" THEN "Ok" ELSE "Io", file, 0, FALSE)

\* main of the helper: the subcommands
helper_op(op, a, file, fs) ==
    CASE op = "write_binding" -> helper_write_binding(file, a.domain, a.ip, fs)
      [] op = "write_bindings_batch" -> helper_write_bindings_batch(file, a.bindings, fs)
      [] op = "clear_binding" -> helper_clear_binding(file, a.domain, fs)
      [] op = "clear_bindings_batch" -> helper_clear_bindings_batch(file, a.domains, fs)
      [] op = "clear_all_anyfast_bindings" -> helper_clear_all_anyfast_bindings(file, fs)
      [] op = "flush_dns" -> Result(IF fs = "ok" THEN "Ok" ELSE "Err", file, 0, FALSE)

\* RpcResponse::success / RpcResponse::error, as PipeClient::call reads it
rpc_response(r) == IF r.res = "Ok" THEN r ELSE [r EXCEPT !.res = "Rpc"]

\* PipeServer::handle_request behind PipeClient::call: the service answers only
\* when it is up, and dispatches only the methods of rpc::methods.
service_op(op, a, file, up, fs) ==
    IF ~up THEN Result("ServiceNotRunning", file, 0, FALSE)
    ELSE IF op = "clear_all_anyfast_bindings" THEN Result("Rpc", file, 0, FALSE)
    ELSE rpc_response(manager_op(op, a, file, fs))

-----------------------------------------------------------------------------
(* hosts_ops.rs: the privilege broker.  env is what the world does during    *)
(* one call: [service, helper, direct_fs].  service is "down" (nothing        *)
(* answers on the pipe), "Io" (the service cannot replace the file) or "ok";  *)
(* helper is "absent" (no setuid helper installed), "Err" (it cannot be run  *)
(* or cannot replace the file) or "ok"; direct_fs is what the file system    *)
(* does for this process.                                                    *)

Platforms == {"windows", "macos", "linux"}

\* PipeClient::is_service_running: ping().is_ok()
ping(up) == IF up THEN "true" ELSE "false"

\* An is_service_running that pings on every use
is_service_running_uncached(plat, sa, up) ==
    IF plat # "windows" THEN sa ELSE ping(up)

\* is_service_running: the cached flag, which the first use initialises
is_service_running(plat, sa, up) ==
    IF plat # "windows" THEN sa
    ELSE IF sa = "unset" THEN ping(up) ELSE sa

\* refresh_service_status
refresh_service_status(plat, sa, up) ==
    IF plat # "windows" THEN sa ELSE ping(up)

\* A mark_service_unavailable that leaves the flag as it is
mark_service_unavailable_noop(sa) == sa

\* mark_service_unavailable
mark_service_unavailable(sa) == IF sa # "unset" THEN "false" ELSE sa

\* check_macos_helper_internal
check_macos_helper_internal(installed) == IF installed THEN "some" ELSE "none"

\* get_macos_helper_path: the cached path after the call
get_macos_helper_path(hp, needs_refresh, installed) ==
    IF hp = "unset" \/ needs_refresh THEN check_macos_helper_internal(installed) ELSE hp

\* What the broker reports for a helper that exited 0
helper_count(op, a) ==
    CASE op = "write_bindings_batch" -> Len(a.bindings)
      [] op = "clear_bindings_batch" -> Len(a.domains)
      [] OTHER -> 0

\* The three blocks of a broker function, s, h and d being what the service,
\* the helper and the in-process operation answer when they are asked: the
\* service's answer when it is believed to run and succeeds, else the
\* helper's when there is one and it succeeds, else the in-process one.
broker_blocks(op, a, sa1, hp1, hr1, try_service, try_helper, s, h, d) ==
    IF try_service /\ s.res = "Ok"
    THEN [sa |-> sa1, hp |-> hp1, hr |-> hr1, svc_attempts |-> 1, svc_failed |-> FALSE,
          res |-> "Ok", count |-> s.count, file |-> s.file, mechanism |-> "service",
          open_called |-> s.open_called, fallback_res |-> "none"]
    ELSE IF try_helper /\ h.res = "Ok"
    THEN [sa |-> IF try_service THEN mark_service_unavailable(sa1) ELSE sa1,
          hp |-> hp1, hr |-> hr1, svc_attempts |-> IF try_service THEN 1 ELSE 0,
          svc_failed |-> try_service,
          res |-> "Ok", count |-> helper_count(op, a), file |-> h.file,
          mechanism |-> "helper", open_called |-> h.open_called, fallback_res |-> "Ok"]
    ELSE [sa |-> IF try_service THEN mark_service_unavailable(sa1) ELSE sa1,
          hp |-> hp1, hr |-> hr1, svc_attempts |-> IF try_service THEN 1 ELSE 0,
          svc_failed |-> try_service,
          res |-> d.res, count |-> d.count, file |-> d.file, mechanism |-> "direct",
          open_called |-> d.open_called \/ (try_service /\ s.open_called)
                                        \/ (try_helper /\ h.open_called),
          fallback_res |-> d.res]

\* A broker function once is_service_running and get_macos_helper_path have
\* answered sa1 and hp1
broker_with(op, a, plat, file, sa1, hp1, hr1, env) ==
    broker_blocks(op, a, sa1, hp1, hr1,
                  plat = "windows" /\ sa1 = "true",
                  plat = "macos" /\ hp1 = "some",
                  service_op(op, a, file, env.service # "down",
                             IF env.service = "Io" THEN "Io" ELSE "ok"),
                  helper_op(op, a, file, IF env.helper = "ok" THEN "ok" ELSE "Io"),
                  manager_op(op, a, file, env.direct_fs))

\* write_binding, write_bindings_batch, clear_binding, clear_bindings_batch,
\* clear_all_anyfast_bindings and flush_dns of hosts_ops.rs
broker(op, a, plat, file, sa, hp, hr, env) ==
    broker_with(op, a, plat, file,
                is_service_running(plat, sa, env.service # "down"),
                IF plat = "macos"
                THEN get_macos_helper_path(hp, hr, env.helper # "absent") ELSE hp,
                IF plat = "macos" THEN FALSE ELSE hr,
                env)

-----------------------------------------------------------------------------
(* The calls of the model and their inputs *)

MaxOps == 2
MaxBatch == 2

A_TEST == <<"a.test">>
B_TEST == <<"b.test">>
IP1 == <<"1.1.1.1">>
IP2 == <<"2.2.2.2">>

DomainArgs ==
    {A_TEST, B_TEST, <<>>, <<"a.test", SP, "b.test">>, <<"a.test", CTRL>>,
     <<"a.test", SLASH>>, <<UALNUM, "a.test">>}

IpArgs == {IP1, IP2, <<"999.9.9.9">>}

\* The valid pairs, every domain with a good address, a bad address
SingleBindings ==
    {Binding(A_TEST, IP2), Binding(B_TEST, IP1)}
    \cup {Binding(d, IP1) : d \in DomainArgs}
    \cup {Binding(A_TEST, <<"999.9.9.9">>)}

BatchBindings ==
    {Binding(A_TEST, IP1), Binding(B_TEST, IP2),
     Binding(B_TEST, <<"999.9.9.9">>), Binding(<<UALNUM, "a.test">>, IP1)}

SeqsUpTo(S, n) == UNION {[1..k -> S] : k \in 0..n}

NoArgs == [domain |-> <<>>, ip |-> <<>>, bindings |-> <<>>, domains |-> <<>>]

ArgsOf(op) ==
    CASE op = "write_binding" ->
            {[NoArgs EXCEPT !.domain = b.domain, !.ip = b.ip] : b \in SingleBindings}
      [] op = "write_bindings_batch" ->
            {[NoArgs EXCEPT !.bindings = b] : b \in SeqsUpTo(BatchBindings, MaxBatch)}
      [] op = "clear_binding" ->
            {[NoArgs EXCEPT !.domain = d] : d \in {A_TEST, B_TEST}}
      [] op = "clear_bindings_batch" ->
            {[NoArgs EXCEPT !.domains = ds] : ds \in SeqsUpTo({A_TEST, B_TEST}, MaxBatch)}
      [] OTHER -> {NoArgs}

Envs(plat) ==
    [service : IF plat = "windows" THEN {"down", "Io", "ok"} ELSE {"down"},
     helper : IF plat = "macos" THEN {"absent", "Err", "ok"} ELSE {"absent"},
     direct_fs : FsOutcomes]

\* The bindings a successful call leaves pinned
pinned_after(op, a, p) ==
    CASE op = "write_binding" -> insert(p, a.domain, a.ip)
      [] op = "write_bindings_batch" -> insert_all(p, a.bindings)
      [] op = "clear_binding" -> remove(p, a.domain)
      [] op = "clear_bindings_batch" -> remove_all(p, Range(a.domains))
      [] op = "clear_all_anyfast_bindings" -> NoBindings
      [] OTHER -> p

NoCall ==
    [op |-> "none", args |-> NoArgs, res |-> "none", count |-> 0, mechanism |-> "none",
     svc_attempts |-> 0, svc_failed |-> FALSE, fallback_res |-> "none",
     open_called |-> FALSE, changed |-> FALSE, sa_before |-> "unset", marked |-> FALSE]

\* One call of the broker
BrokerCall(op) ==
    /\ nops < MaxOps
    /\ \E a \in ArgsOf(op), env \in Envs(platform) :
         \E r \in {broker(op, a, platform, hosts, SERVICE_AVAILABLE, MACOS_HELPER_PATH,
                           MACOS_HELPER_NEEDS_REFRESH, env)} :
             /\ hosts' = r.file
             /\ SERVICE_AVAILABLE' = r.sa
             /\ MACOS_HELPER_PATH' = r.hp
             /\ MACOS_HELPER_NEEDS_REFRESH' = r.hr
             /\ call' = [op |-> op, args |-> a, res |-> r.res, count |-> r.count,
                         mechanism |-> r.mechanism, svc_attempts |-> r.svc_attempts,
                         svc_failed |-> r.svc_failed, fallback_res |-> r.fallback_res,
                         open_called |-> r.open_called, changed |-> r.file # hosts,
                         sa_before |-> SERVICE_AVAILABLE,
                         marked |-> call.marked \/ r.svc_failed]
             /\ pinned' = IF r.res = "Ok" THEN pinned_after(op, a, pinned) ELSE pinned
    /\ nops' = nops + 1
    /\ UNCHANGED <<hosts0, platform, hcVars, sw, cc, appVars>>

WriteBinding == BrokerCall("write_binding")
WriteBindingsBatch == BrokerCall("write_bindings_batch")
ClearBinding == BrokerCall("clear_binding")
ClearBindingsBatch == BrokerCall("clear_bindings_batch")
ClearAllAnyfastBindings == BrokerCall("clear_all_anyfast_bindings")
FlushDns == BrokerCall("flush_dns")

\* refresh_service_status, the command of lib.rs
RefreshServiceStatus ==
    /\ nops < MaxOps
    /\ \E up \in (IF platform = "windows" THEN BOOLEAN ELSE {FALSE}) :
         SERVICE_AVAILABLE' = refresh_service_status(platform, SERVICE_AVAILABLE, up)
    /\ call' = [NoCall EXCEPT !.op = "refresh_service_status",
                              !.sa_before = SERVICE_AVAILABLE]
    /\ nops' = nops + 1
    /\ UNCHANGED <<hosts, hosts0, platform, MACOS_HELPER_PATH,
                   MACOS_HELPER_NEEDS_REFRESH, pinned, hcVars, sw, cc, appVars>>

\* refresh_macos_helper_status of hosts_ops.rs: raises the flag and looks the
\* helper up at once
RefreshMacosHelperStatus ==
    /\ nops < MaxOps
    /\ platform = "macos"
    /\ \E installed \in BOOLEAN :
         MACOS_HELPER_PATH' = get_macos_helper_path(MACOS_HELPER_PATH, TRUE, installed)
    /\ MACOS_HELPER_NEEDS_REFRESH' = FALSE
    /\ call' = [NoCall EXCEPT !.op = "refresh_macos_helper_status",
                              !.sa_before = SERVICE_AVAILABLE,
                              !.marked = call.marked]
    /\ nops' = nops + 1
    /\ UNCHANGED <<hosts, hosts0, platform, SERVICE_AVAILABLE, pinned, hcVars, sw, cc, appVars>>

-----------------------------------------------------------------------------
(* The hosts files a run starts from *)

L_USER == <<"127.0.0.1", TAB, "localhost">>
L_PLAIN_A == <<"127.0.0.1", SP, "a.test">>
L_NOTE == <<HASH, SP, "note">>
L_EMPTY == <<>>
L_BIND_A2 == binding_line(IP2, A_TEST)
L_BIND_B1 == binding_line(IP1, B_TEST)

File(bom, lines, nl) == [bom |-> bom, lines |-> lines, nl |-> nl]

InitialFiles ==
    {File(FALSE, <<>>, FALSE),
     File(FALSE, <<L_USER>>, TRUE),
     File(FALSE, <<L_USER, L_NOTE>>, FALSE),
     File(TRUE, <<L_USER, L_EMPTY, MARKER_BEGIN, L_BIND_A2, MARKER_END>>, TRUE),
     File(FALSE, <<L_USER, MARKER_BEGIN, L_BIND_A2, MARKER_END, L_NOTE>>, TRUE),
     File(FALSE, <<L_USER, MARKER_BEGIN, L_BIND_A2, L_NOTE>>, TRUE),
     File(FALSE, <<L_USER, L_BIND_A2, L_NOTE>>, TRUE),
     File(FALSE, <<MARKER_BEGIN, L_BIND_A2, MARKER_END, L_USER,
                   MARKER_BEGIN, L_BIND_B1, MARKER_END, L_NOTE>>, TRUE),
     File(FALSE, <<L_USER, L_EMPTY>>, TRUE),
     File(FALSE, <<MARKER_END, L_PLAIN_A>>, FALSE),
     File(TRUE, <<MARKER_BEGIN, L_BIND_A2, MARKER_END>>, TRUE),
     File(FALSE, <<MARKER_BEGIN, L_NOTE, MARKER_END, L_USER, MARKER_BEGIN>>, TRUE)}

\* The statics of hosts_ops.rs at program start, over a given hosts file
HostsStart(files, platforms) ==
    /\ hosts0 \in files
    /\ hosts = hosts0
    /\ platform \in platforms
    /\ SERVICE_AVAILABLE = "unset"
    /\ MACOS_HELPER_PATH = "unset"
    /\ MACOS_HELPER_NEEDS_REFRESH = FALSE
    /\ call = NoCall
    /\ pinned = NoBindings
    /\ nops = 0

\* No health checker constructed
HcIdle ==
    /\ config = <<>>
    /\ clock = 0
    /\ task = <<>>
    /\ baselines = NoBindings
    /\ status = <<>>
    /\ tick = <<>>
    /\ switch_log = NoBindings
    /\ hc_steps = <<>>

SwIdle == sw = <<>>

CcIdle == cc = <<>>

AppIdle == am = <<>> /\ et = <<>> /\ pipe = <<>>

Init ==
    /\ HostsStart(InitialFiles, Platforms)
    /\ HcIdle
    /\ SwIdle
    /\ CcIdle
    /\ AppIdle

Next ==
    \/ WriteBinding
    \/ WriteBindingsBatch
    \/ ClearBinding
    \/ ClearBindingsBatch
    \/ ClearAllAnyfastBindings
    \/ FlushDns
    \/ RefreshServiceStatus
    \/ RefreshMacosHelperStatus

Spec == Init /\ [][Next]_vars

-----------------------------------------------------------------------------
(* Properties of the hosts file under Spec *)

\* A legacy sentinel line: a line that carries "# anyFAST" and is no comment
is_legacy_line(line) ==
    LET t == trim(line)
    IN  t # <<>> /\ ~starts_with_hash(t) /\ contains(t, MARKER_LINE)

\* The lines outside every BEGIN/END block, legacy sentinel lines and the
\* marker lines themselves excluded; a block without END runs to the end.
RECURSIVE NonManagedFrom(_, _)
NonManagedFrom(lines, in_block) ==
    IF lines = <<>> THEN <<>>
    ELSE LET t == trim(Head(lines))
         IN  IF t = MARKER_BEGIN THEN NonManagedFrom(Tail(lines), TRUE)
             ELSE IF t = MARKER_END THEN NonManagedFrom(Tail(lines), FALSE)
             ELSE IF in_block \/ is_legacy_line(Head(lines))
             THEN NonManagedFrom(Tail(lines), in_block)
             ELSE <<Head(lines)>> \o NonManagedFrom(Tail(lines), in_block)

NonManaged(file) == NonManagedFrom(file.lines, FALSE)

RECURSIVE EndsInBlock(_, _)
EndsInBlock(lines, in_block) ==
    IF lines = <<>> THEN in_block
    ELSE LET t == trim(Head(lines))
         IN  EndsInBlock(Tail(lines),
                         IF t = MARKER_BEGIN THEN TRUE
                         ELSE IF t = MARKER_END THEN FALSE ELSE in_block)

NonEmptyLines(lines) == SelectSeq(lines, LAMBDA l : l # <<>>)

RECURSIVE IsSubseq(_, _)
IsSubseq(s, t) ==
    IF s = <<>> THEN TRUE
    ELSE IF t = <<>> THEN FALSE
    ELSE IF Head(s) = Head(t) THEN IsSubseq(Tail(s), Tail(t))
    ELSE IsSubseq(s, Tail(t))

\* C1, as it holds: whatever calls were made, the non-empty lines outside the
\* managed block of the initial file are still outside the managed block, in
\* the same order; and when no block of the initial file lacked its END
\* marker, the non-empty lines outside the block are exactly those lines.
\* (Empty lines come and go: render puts one before the block, and a last
\* empty line is lost in lines.join.)
C1_NonEmptyOutsideLinesKept ==
    LET before == NonEmptyLines(NonManaged(hosts0))
        after == NonEmptyLines(NonManaged(hosts))
    IN  /\ IsSubseq(before, after)
        /\ ~EndsInBlock(hosts0.lines, FALSE) => after = before

\* C1 witness: two successful mutations later, the file has changed, has a
\* managed block, and had lines outside the block from the start.
C1_Witness ==
    /\ nops = 2
    /\ call.op \in MutatingOps /\ call.res = "Ok" /\ call.changed
    /\ hosts.lines # hosts0.lines
    /\ NonEmptyLines(NonManaged(hosts0)) # <<>>
    /\ \E i \in 1..Len(hosts.lines) : hosts.lines[i] = MARKER_BEGIN

\* C1, as claimed: the lines outside the managed block are the same lines, in
\* the same order, after any sequence of calls as before it.
C1_OutsideLinesIdentical == NonManaged(hosts) = NonManaged(hosts0)

\* C3: read_binding(domain) returns the ip of the last successful write of the
\* domain that no successful clear has followed, whichever mechanism wrote it
\* and whatever the file held before.
C3_ReadReturnsLastWrite ==
    \A d \in DOMAIN pinned : read_binding(hosts, d) = Some(pinned[d])

\* C3 witness: the helper has just overwritten a binding the initial file
\* held with another address.
C3_Witness ==
    /\ call.op = "write_binding" /\ call.res = "Ok" /\ call.mechanism = "helper"
    /\ call.args.domain = A_TEST /\ call.args.ip = IP1
    /\ read_binding(hosts0, A_TEST) = Some(IP2)
    /\ read_binding(hosts, A_TEST) = Some(IP1)

\* [A-Za-z0-9._-]+
ascii_hostname(domain) ==
    domain # <<>> /\ \A i \in 1..Len(domain) : is_ascii_hostname_atom(domain[i])

\* The bindings a write call asked for
requested(c) ==
    IF c.op = "write_binding" THEN <<Binding(c.args.domain, c.args.ip)>>
    ELSE IF c.op = "write_bindings_batch" THEN c.args.bindings
    ELSE <<>>

\* C4, as claimed: a write, single or batch, with an ip that does not parse or
\* a domain that is empty or has a character outside [A-Za-z0-9._-] fails
\* with InvalidIp or InvalidDomain, and the hosts file is neither opened for
\* writing nor changed.
C4_InvalidWriteRejected ==
    LET bs == requested(call)
    IN  (\E i \in 1..Len(bs) : ~parse_IpAddr(bs[i].ip) \/ ~ascii_hostname(bs[i].domain))
        => /\ call.res \in {"InvalidIp", "InvalidDomain"}
           /\ ~call.open_called
           /\ ~call.changed

BrokerOps == MutatingOps \cup {"flush_dns"}

\* C5: when a broker call's service attempt fails, the service was attempted
\* once in that call, the cached flag is cleared, the helper or the in-process
\* operation was invoked, and the call returns what that fallback returned:
\* success when it succeeded, PermissionDenied when it was refused.
C5_ServiceFailureFallsBack ==
    call.svc_failed =>
        /\ call.op \in BrokerOps
        /\ call.sa_before # "false"
        /\ call.svc_attempts = 1
        /\ SERVICE_AVAILABLE = "false"
        /\ call.mechanism \in {"helper", "direct"}
        /\ call.fallback_res # "none"
        /\ call.res = call.fallback_res
        /\ call.fallback_res = "Ok" => call.res = "Ok"
        /\ call.fallback_res = "PermissionDenied" => call.res = "PermissionDenied"

\* C5 witness: the service answered the first call and is down at the second,
\* a write_binding whose in-process fallback is refused.
C5_Witness ==
    /\ nops = 2
    /\ call.op = "write_binding" /\ call.sa_before = "true"
    /\ call.svc_failed /\ call.res = "PermissionDenied"

\* C6: once a broker call has marked the service unavailable, no broker call
\* attempts the service before refresh_service_status is invoked, and the
\* cached flag goes from false to true only in refresh_service_status.
C6_NoServiceAttemptUntilRefresh ==
    [][/\ (call.marked /\ call'.op # "refresh_service_status")
            => (call'.svc_attempts = 0 /\ SERVICE_AVAILABLE' = "false")
       /\ (SERVICE_AVAILABLE = "false" /\ SERVICE_AVAILABLE' = "true")
            => call'.op = "refresh_service_status"]_vars

\* C6 witness: a write_binding after an earlier call marked the service
\* unavailable made no service attempt and succeeded in-process.
C6_Witness ==
    /\ platform = "windows"
    /\ call.marked /\ ~call.svc_failed
    /\ call.op = "write_binding" /\ call.res = "Ok"
    /\ call.svc_attempts = 0 /\ call.mechanism = "direct"

-----------------------------------------------------------------------------
(* health_checker.rs: the silent window *)

SWITCH_COOLDOWN_SECS == 1800
SWITCH_SILENT_WINDOW_SECS == 120

\* A silent window that keeps the pending timer when the condition recovers
should_switch_keeping_timer(domain, now, should_switch_condition, in_cooldown, pending_switch_since) ==
    IF ~should_switch_condition
    THEN [ret |-> FALSE, pending_switch_since |-> pending_switch_since]
    ELSE LET pending == IF domain \in DOMAIN pending_switch_since
                        THEN pending_switch_since
                        ELSE insert(pending_switch_since, domain, now)
         IN  [ret |-> now - pending[domain] >= SWITCH_SILENT_WINDOW_SECS /\ ~in_cooldown,
              pending_switch_since |-> pending]

\* HealthChecker::should_switch_after_silent_window: what it returns and the
\* map it leaves
should_switch_after_silent_window(domain, now, should_switch_condition, in_cooldown, pending_switch_since) ==
    IF ~should_switch_condition
    THEN [ret |-> FALSE, pending_switch_since |-> remove(pending_switch_since, domain)]
    ELSE LET pending == IF domain \in DOMAIN pending_switch_since
                        THEN pending_switch_since
                        ELSE insert(pending_switch_since, domain, now)
             silent_elapsed == now - pending[domain]
         IN  [ret |-> IF silent_elapsed < SWITCH_SILENT_WINDOW_SECS THEN FALSE
                      ELSE ~in_cooldown,
              pending_switch_since |-> pending]

(* The function called again and again, as perform_check calls it: on any    *)
(* domain, with any condition and cooldown, the clock never going back.      *)
(* sw = [now, pending_switch_since, run_start, last, calls]; run_start is    *)
(* the time of the first call of each domain's present unbroken run of calls *)
(* with a true condition.                                                    *)

MaxCalls == 4
BootTime == 100000
SilentSteps == {0, 60, 119}

NoSilentCall ==
    [domain |-> <<>>, cond |-> FALSE, in_cooldown |-> FALSE, ret |-> FALSE, fresh |-> FALSE]

InitSilent ==
    /\ sw = [now |-> BootTime, pending_switch_since |-> NoBindings,
             run_start |-> NoBindings, last |-> NoSilentCall, calls |-> 0]
    /\ HostsStart({File(FALSE, <<>>, FALSE)}, {"linux"})
    /\ HcIdle
    /\ CcIdle
    /\ AppIdle

SilentWindowCall ==
    /\ sw.calls < MaxCalls
    /\ \E domain \in {A_TEST, B_TEST}, dt \in SilentSteps, cond \in BOOLEAN,
          in_cooldown \in BOOLEAN :
         \E r \in {should_switch_after_silent_window(
                       domain, sw.now + dt, cond, in_cooldown, sw.pending_switch_since)} :
            sw' = [now |-> sw.now + dt,
                   pending_switch_since |-> r.pending_switch_since,
                   run_start |-> IF ~cond THEN remove(sw.run_start, domain)
                                 ELSE IF domain \in DOMAIN sw.run_start THEN sw.run_start
                                 ELSE insert(sw.run_start, domain, sw.now + dt),
                   last |-> [domain |-> domain, cond |-> cond, in_cooldown |-> in_cooldown,
                             ret |-> r.ret,
                             fresh |-> cond /\ domain \notin DOMAIN sw.run_start],
                   calls |-> sw.calls + 1]
    /\ UNCHANGED <<hostsVars, hcVars, cc, appVars>>

NextSilent == SilentWindowCall

SpecSilent == InitSilent /\ [][NextSilent]_vars

\* C7: should_switch_after_silent_window returns true for a domain only if
\* the condition was true at every call for the domain since its pending
\* timer was set, at least 120 s have passed since then and in_cooldown is
\* false; a call with a false condition removes the timer, and the next call
\* with a true condition starts a new window at its own time.
C7_SilentWindow ==
    LET d == sw.last.domain
    IN  /\ sw.pending_switch_since = sw.run_start
        /\ sw.last.ret =>
              /\ sw.last.cond /\ ~sw.last.in_cooldown
              /\ d \in DOMAIN sw.run_start
              /\ sw.now - sw.run_start[d] >= 120
        /\ (sw.calls > 0 /\ ~sw.last.cond) => d \notin DOMAIN sw.pending_switch_since
        /\ sw.last.fresh => (sw.pending_switch_since[d] = sw.now /\ ~sw.last.ret)

\* C7 witness: the call returned true exactly 120 s after the condition
\* became true, another domain's timer having been cleared meanwhile.
C7_Witness ==
    /\ sw.last.ret
    /\ sw.now - sw.run_start[sw.last.domain] = 120
    /\ DOMAIN sw.pending_switch_since = {sw.last.domain}
    /\ sw.calls = MaxCalls

-----------------------------------------------------------------------------
(* health_checker.rs: the background loop *)

FAILURE_WINDOW_SIZE == 10
FAILURE_WINDOW_THRESHOLD == 7
SEVERE_WINDOW_SIZE == 5
SEVERE_WINDOW_THRESHOLD == 3
SEVERE_ABS_THRESHOLD_MS == 300
MIN_CHECK_INTERVAL_SECS == 60
MIN_SLOW_THRESHOLD_PERCENT == 100
MIN_FAILURE_THRESHOLD == 3

\* EndpointResult::failure: latency 9999.0
FAILURE_LATENCY == 9999

\* A clamp that lets every configured value through
unclamped(a, b) == a

\* Ord::max, as start applies it to the configured values
max(a, b) == IF a >= b THEN a ELSE b

\* map.get(k).copied().unwrap_or(default)
get_or(m, k, default) == IF k \in DOMAIN m THEN m[k] ELSE default

\* A window that never drops its oldest entry
push_window_unbounded(window, v, size) == Append(window, v)

\* window.push_back(v); if window.len() > size { window.pop_front(); }
push_window(window, v, size) ==
    LET w == Append(window, v) IN IF Len(w) > size THEN Tail(w) ELSE w

\* window.iter().filter(|v| **v).count()
count_true(window) == Cardinality({i \in 1..Len(window) : window[i]})

\* HealthChecker::dedupe_endpoints_by_domain, on the domains
RECURSIVE dedupe_from(_, _)
dedupe_from(endpoints, seen) ==
    IF endpoints = <<>> THEN <<>>
    ELSE IF Head(endpoints) \in seen THEN dedupe_from(Tail(endpoints), seen)
    ELSE <<Head(endpoints)>> \o dedupe_from(Tail(endpoints), seen \cup {Head(endpoints)})

dedupe_endpoints_by_domain(endpoints) == dedupe_from(endpoints, {})

\* The end of the loop body of perform_check: the silent window is asked and
\* the maps of the task are updated.
decide_switch(domain, now, st, current_ip, probes, consecutive_failures, failure_window, severe_window, switch_triggered, in_cooldown, silent) ==
    [st |-> [st EXCEPT
                !.failure_counts = insert(@, domain, consecutive_failures),
                !.failure_windows = insert(@, domain, failure_window),
                !.severe_windows = insert(@, domain, severe_window),
                !.pending_switch_since = silent.pending_switch_since],
     should_switch_now |-> silent.ret,
     current_ip |-> current_ip,
     probes |-> probes,
     switch_triggered |-> switch_triggered,
     in_cooldown |-> in_cooldown,
     pending_before |-> IF domain \in DOMAIN st.pending_switch_since
                        THEN Some(st.pending_switch_since[domain]) ELSE None]

\* should_switch_for_failure, should_switch_for_degradation, switch_triggered
\* and in_cooldown of perform_check
judge_windows(domain, now, st, current_ip, probes, consecutive_failures, failure_window, severe_window, in_cooldown) ==
    decide_switch(domain, now, st, current_ip, probes, consecutive_failures,
                  failure_window, severe_window,
                  \/ /\ consecutive_failures >= st.failure_threshold
                     /\ count_true(failure_window) >= FAILURE_WINDOW_THRESHOLD
                  \/ count_true(severe_window) >= SEVERE_WINDOW_THRESHOLD,
                  in_cooldown,
                  should_switch_after_silent_window(
                      domain, now,
                      \/ /\ consecutive_failures >= st.failure_threshold
                         /\ count_true(failure_window) >= FAILURE_WINDOW_THRESHOLD
                      \/ count_true(severe_window) >= SEVERE_WINDOW_THRESHOLD,
                      in_cooldown, st.pending_switch_since))

\* The failure counter, the two windows and the cooldown of perform_check
update_windows(domain, now, st, current_ip, probes, is_failure, severe_degraded) ==
    judge_windows(domain, now, st, current_ip, probes,
                  IF is_failure THEN get_or(st.failure_counts, domain, 0) + 1 ELSE 0,
                  push_window(get_or(st.failure_windows, domain, <<>>), is_failure,
                              FAILURE_WINDOW_SIZE),
                  push_window(get_or(st.severe_windows, domain, <<>>), severe_degraded,
                              SEVERE_WINDOW_SIZE),
                  now - get_or(st.last_switch_times, domain, 0) < SWITCH_COOLDOWN_SECS)

\* baseline, is_failure, slow_ratio and severe_degraded of perform_check
judge_current(domain, now, st, current_ip, probes, current_success, current_latency, baseline) ==
    update_windows(domain, now, st, current_ip, probes,
                   ~current_success,
                   /\ current_success
                   /\ baseline > 0
                   /\ current_latency > 0
                   /\ (current_latency - baseline) * 100 >= st.slow_threshold * baseline
                   /\ current_latency - baseline >= SEVERE_ABS_THRESHOLD_MS)

\* current_success and current_latency of perform_check: the result of
\* test_endpoint when nothing is bound or the best address is the bound one,
\* the result of test_ip on the bound address otherwise
measure_current(domain, now, probe, bl, st, current_ip, use_result) ==
    judge_current(domain, now, st, current_ip,
                  IF use_result THEN 1 ELSE 2,
                  IF use_result THEN probe.result.success ELSE probe.current.success,
                  IF use_result THEN probe.result.latency ELSE probe.current.latency,
                  IF domain \in DOMAIN bl THEN bl[domain]
                  ELSE IF (IF use_result THEN probe.result.latency
                           ELSE probe.current.latency) > 0
                  THEN (IF use_result THEN probe.result.latency
                        ELSE probe.current.latency)
                  ELSE probe.result.latency)

\* The loop body of perform_check once the binding has been read
check_bound(domain, now, probe, bl, st, current_ip) ==
    measure_current(domain, now, probe, bl, st, current_ip,
                    \/ current_ip = None
                    \/ (probe.result.success /\ current_ip[1] = probe.result.ip))

\* The body of the loop of perform_check for one endpoint.  probe is what the
\* network answers: [result, current], the outcomes of test_endpoint and of
\* test_ip on the bound address.  st holds the maps of the task.
check_endpoint(domain, now, probe, file, bl, st) ==
    check_bound(domain, now, probe, bl, st, read_binding(file, domain))

\* needs_switch and what the iteration saw, after one endpoint
check_step(acc, domain, c) ==
    [st |-> c.st,
     needs_switch |-> IF c.should_switch_now THEN Append(acc.needs_switch, domain)
                      ELSE acc.needs_switch,
     probes |-> acc.probes + c.probes,
     seen |-> insert(acc.seen, domain,
                     [current_ip |-> c.current_ip,
                      switch_triggered |-> c.switch_triggered,
                      in_cooldown |-> c.in_cooldown,
                      pending_before |-> c.pending_before,
                      pending_after |->
                          IF domain \in DOMAIN c.st.pending_switch_since
                          THEN Some(c.st.pending_switch_since[domain]) ELSE None,
                      should_switch_now |-> c.should_switch_now])]

\* HealthChecker::perform_check: every endpoint in turn.  acc = [st,
\* needs_switch, probes, seen], seen being what the iteration saw per domain.
RECURSIVE perform_check(_, _, _, _, _, _)
perform_check(endpoints, now, probes, file, bl, acc) ==
    IF endpoints = <<>> THEN acc
    ELSE perform_check(Tail(endpoints), now, probes, file, bl,
             check_step(acc, Head(endpoints),
                        check_endpoint(Head(endpoints), now, probes[Head(endpoints)],
                                       file, bl, acc.st)))

\* A preparation phase that pushes a binding even when the address is unchanged
RECURSIVE collect_switches_unconditionally(_, _, _)
collect_switches_unconditionally(endpoints, retests, file) ==
    IF endpoints = <<>> THEN <<>>
    ELSE LET domain == Head(endpoints)
             result == retests[domain]
             rest == collect_switches_unconditionally(Tail(endpoints), retests, file)
         IN  IF result.success
             THEN <<[domain |-> domain, old_ip |-> read_binding(file, domain),
                     new_ip |-> result.ip, new_latency |-> result.latency]>> \o rest
             ELSE rest

\* The preparation phase of perform_switch: the pending switches, one for each
\* endpoint whose re-test succeeds with another address than the bound one
RECURSIVE collect_switches(_, _, _)
collect_switches(endpoints, retests, file) ==
    IF endpoints = <<>> THEN <<>>
    ELSE LET domain == Head(endpoints)
             result == retests[domain]
             old_ip == read_binding(file, domain)
             rest == collect_switches(Tail(endpoints), retests, file)
         IN  IF result.success /\ old_ip # Some(result.ip)
             THEN <<[domain |-> domain, old_ip |-> old_ip,
                     new_ip |-> result.ip, new_latency |-> result.latency]>> \o rest
             ELSE rest

\* bindings of perform_switch
switch_bindings(pending_switches) ==
    [i \in 1..Len(pending_switches) |->
        Binding(pending_switches[i].domain, pending_switches[i].new_ip)]

(* The loop, started and stopped.  A run starts at BootTime with a hosts    *)
(* file that pins a.test or not, and a baseline recorded for it or not.      *)

MaxTicks == 8
MaxStarts == 2
FastMs == 50
SlowMs == 500

Configs ==
    {[check_interval |-> 120, slow_threshold |-> 150, failure_threshold |-> 5,
      endpoints |-> <<[domain |-> A_TEST, enabled |-> TRUE],
                      [domain |-> B_TEST, enabled |-> FALSE]>>],
     [check_interval |-> 30, slow_threshold |-> 50, failure_threshold |-> 1,
      endpoints |-> <<[domain |-> A_TEST, enabled |-> TRUE],
                      [domain |-> A_TEST, enabled |-> TRUE]>>]}

\* What test_endpoint can answer
ProbeResults ==
    {[success |-> FALSE, ip |-> <<>>, latency |-> FAILURE_LATENCY]}
    \cup {[success |-> TRUE, ip |-> i, latency |-> FastMs] : i \in {IP1, IP2}}

\* What test_ip on the bound address can answer
CurrentResults ==
    {[success |-> FALSE, latency |-> FAILURE_LATENCY],
     [success |-> TRUE, latency |-> FastMs],
     [success |-> TRUE, latency |-> SlowMs]}

ProbeOutcomes == [result : ProbeResults, current : CurrentResults]

NoTask ==
    [alive |-> FALSE, endpoints |-> <<>>, check_interval |-> 0, slow_threshold |-> 0,
     failure_threshold |-> 0, failure_counts |-> NoBindings,
     failure_windows |-> NoBindings, severe_windows |-> NoBindings,
     last_switch_times |-> NoBindings, pending_switch_since |-> NoBindings]

NoTick ==
    [now |-> 0, seen |-> NoBindings, needs_switch |-> <<>>, probes |-> 0,
     answers |-> NoBindings, retests |-> NoBindings, batch_writes |-> 0, write_res |-> "none", written |-> <<>>,
     flushes |-> 0, changed |-> {}, notified |-> FALSE,
     before |-> [baselines |-> NoBindings, last_switch_times |-> NoBindings,
                 switch_count |-> 0]]

PinnedFile == File(FALSE, <<L_USER, L_EMPTY, MARKER_BEGIN, binding_line(IP1, A_TEST),
                            MARKER_END>>, FALSE)
UnpinnedFile == File(FALSE, <<L_USER>>, TRUE)

\* What the probes can answer in a network: anything; an outage, where the
\* bound address fails or answers fast; congestion, where it answers fast or
\* slowly
answers_of(network) ==
    CASE network = "outage" ->
             {p \in ProbeOutcomes : ~p.current.success \/ p.current.latency = FastMs}
      [] network = "congestion" -> {p \in ProbeOutcomes : p.current.success}
      [] OTHER -> ProbeOutcomes

HealthStart(files, networks, configs) ==
    /\ HostsStart(files, {"linux"})
    /\ config \in configs
    /\ clock = BootTime
    /\ task = NoTask
    /\ baselines \in {NoBindings,
                      [d \in {e \in {A_TEST, B_TEST} : read_binding(hosts, e) # None}
                          |-> FastMs]}
    /\ status = [is_running |-> FALSE, check_count |-> 0, switch_count |-> 0]
    /\ tick = NoTick
    /\ switch_log = NoBindings
    /\ \E network \in networks :
          hc_steps = [ticks |-> 0, starts |-> 0, history |-> NoBindings,
                      network |-> network]
    /\ SwIdle
    /\ CcIdle
    /\ AppIdle

InitHealth == HealthStart({PinnedFile, UnpinnedFile}, {"any"}, Configs)

\* config.endpoints.into_iter().filter(|e| e.enabled), the domains
enabled_domains(endpoints) ==
    LET on == SelectSeq(endpoints, LAMBDA e : e.enabled)
    IN  [i \in 1..Len(on) |-> on[i].domain]

\* start_auto_mode of lib.rs and HealthChecker::start: a new task with new maps
StartHealthChecker ==
    /\ ~task.alive
    /\ hc_steps.starts < MaxStarts
    /\ LET endpoints == dedupe_endpoints_by_domain(enabled_domains(config.endpoints))
       IN  IF endpoints = <<>> THEN UNCHANGED <<task, status>>
           ELSE /\ task' = [NoTask EXCEPT
                              !.alive = TRUE,
                              !.endpoints = endpoints,
                              !.check_interval =
                                  max(config.check_interval, MIN_CHECK_INTERVAL_SECS),
                              !.slow_threshold =
                                  max(config.slow_threshold, MIN_SLOW_THRESHOLD_PERCENT),
                              !.failure_threshold =
                                  max(config.failure_threshold, MIN_FAILURE_THRESHOLD)]
                /\ status' = [status EXCEPT !.is_running = TRUE]
    /\ hc_steps' = [hc_steps EXCEPT !.starts = @ + 1, !.history = NoBindings]
    /\ UNCHANGED <<config, clock, baselines, tick, switch_log, hostsVars, sw, cc, appVars>>

\* stop_auto_mode of lib.rs: the token is cancelled, the loop breaks and its
\* maps go with it
StopHealthChecker ==
    /\ task.alive
    /\ task' = NoTask
    /\ status' = [status EXCEPT !.is_running = FALSE]
    /\ UNCHANGED <<config, clock, baselines, tick, switch_log, hc_steps, hostsVars, sw, cc, appVars>>

\* A loop that inserts nothing
insert_nothing(m, pending_switches, values) == m

\* for ps in &pending_switches { map.insert(ps.domain.clone(), value(ps)); }
RECURSIVE insert_switched(_, _, _)
insert_switched(m, pending_switches, values) ==
    IF pending_switches = <<>> THEN m
    ELSE insert_switched(insert(m, Head(pending_switches).domain, Head(values)),
                         Tail(pending_switches), Tail(values))

\* What the checks of an iteration pushed to the windows of each endpoint:
\* is_failure and severe_degraded, appended to what the task marked so far
RECURSIVE marked(_, _, _)
marked(history, endpoints, st) ==
    IF endpoints = <<>> THEN history
    ELSE LET d == Head(endpoints)
             fw == st.failure_windows[d]
             sv == st.severe_windows[d]
         IN  marked(insert(history, d,
                           Append(get_or(history, d, <<>>),
                                  [is_failure |-> fw[Len(fw)],
                                   severe_degraded |-> sv[Len(sv)]])),
                    Tail(endpoints), st)

\* One iteration of the loop of HealthChecker::start after its sleep:
\* perform_check, the status update, and perform_switch when an endpoint
\* needs a switch (re-test, write_bindings_batch, flush_dns, baselines,
\* last_switch_times).
TickUpTo(limit) ==
    /\ task.alive
    /\ hc_steps.ticks < limit
    /\ \E probes \in [Range(task.endpoints) -> answers_of(hc_steps.network)] :
       \E chk \in {perform_check(task.endpoints, clock + task.check_interval, probes,
                                 hosts, baselines,
                                 [st |-> task, needs_switch |-> <<>>, probes |-> 0,
                                  seen |-> NoBindings])} :
       \E retests \in IF chk.needs_switch = <<>> THEN {NoBindings}
                      ELSE [Range(chk.needs_switch) -> ProbeResults] :
       \E pending_switches \in
             {collect_switches(dedupe_endpoints_by_domain(chk.needs_switch),
                               retests, hosts)} :
       \E env \in IF pending_switches = <<>>
                  THEN {[service |-> "down", helper |-> "absent", direct_fs |-> "ok"]}
                  ELSE {e \in Envs(platform) : e.direct_fs # "Io"} :
       \E w \in {IF pending_switches = <<>>
                 THEN [res |-> "none", file |-> hosts, sa |-> SERVICE_AVAILABLE,
                       hp |-> MACOS_HELPER_PATH, hr |-> MACOS_HELPER_NEEDS_REFRESH]
                 ELSE broker("write_bindings_batch",
                             [NoArgs EXCEPT !.bindings = switch_bindings(pending_switches)],
                             platform, hosts, SERVICE_AVAILABLE, MACOS_HELPER_PATH,
                             MACOS_HELPER_NEEDS_REFRESH, env)} :
       \E f \in {IF w.res = "Ok"
                 THEN broker("flush_dns", NoArgs, platform, w.file, w.sa, w.hp, w.hr, env)
                 ELSE w} :
          LET now == clock + task.check_interval
              switched == IF w.res = "Ok" THEN pending_switches ELSE <<>>
              new_latency == [i \in 1..Len(switched) |-> switched[i].new_latency]
              at_now == [i \in 1..Len(switched) |-> now]
              logged == [i \in 1..Len(switched) |->
                            Append(get_or(switch_log, switched[i].domain, <<>>), now)]
          IN  /\ clock' = now
              /\ hosts' = w.file
              /\ SERVICE_AVAILABLE' = f.sa
              /\ MACOS_HELPER_PATH' = f.hp
              /\ MACOS_HELPER_NEEDS_REFRESH' = f.hr
              /\ baselines' = insert_switched(baselines, switched, new_latency)
              /\ task' = [chk.st EXCEPT
                            !.last_switch_times = insert_switched(@, switched, at_now)]
              /\ switch_log' = insert_switched(switch_log, switched, logged)
              /\ status' = [status EXCEPT !.check_count = @ + 1,
                                          !.switch_count = @ + Len(switched)]
              /\ tick' = [now |-> now, seen |-> chk.seen,
                          needs_switch |-> chk.needs_switch,
                          probes |-> chk.probes
                                     + Len(dedupe_endpoints_by_domain(chk.needs_switch)),
                          answers |-> probes,
                          retests |-> retests,
                          batch_writes |-> IF pending_switches = <<>> THEN 0 ELSE 1,
                          write_res |-> w.res,
                          written |-> IF w.res = "Ok"
                                      THEN switch_bindings(pending_switches) ELSE <<>>,
                          flushes |-> IF w.res = "Ok" THEN 1 ELSE 0,
                          changed |-> {d \in Range(task.endpoints) :
                                          read_binding(w.file, d) # read_binding(hosts, d)},
                          notified |-> Len(switched) > 0,
                          before |-> [baselines |-> baselines,
                                      last_switch_times |-> task.last_switch_times,
                                      switch_count |-> status.switch_count]]
              /\ hc_steps' = [hc_steps EXCEPT
                                !.ticks = @ + 1,
                                !.history = marked(@, task.endpoints, chk.st)]
    /\ UNCHANGED <<config, hosts0, platform, call, pinned, nops, sw, cc, appVars>>

Tick == TickUpTo(MaxTicks)

NextHealth ==
    \/ StartHealthChecker
    \/ StopHealthChecker
    \/ Tick

SpecHealth == InitHealth /\ [][NextHealth]_vars

-----------------------------------------------------------------------------
(* Properties of the health checker under SpecHealth *)

\* The domains of a sequence of bindings
bound_domains(bindings) == {bindings[i].domain : i \in 1..Len(bindings)}

\* The silent window of the domain has run out at the last iteration: the
\* condition holds, its timer was set at least 120 s before, no cooldown
window_elapsed(d) ==
    /\ d \in DOMAIN tick.seen
    /\ tick.seen[d].switch_triggered
    /\ tick.seen[d].pending_before # None
    /\ tick.now - tick.seen[d].pending_before[1] >= SWITCH_SILENT_WINDOW_SECS
    /\ ~tick.seen[d].in_cooldown

\* The re-test of perform_switch found another address than the bound one
retest_found_other(d) ==
    /\ d \in DOMAIN tick.retests
    /\ tick.retests[d].success
    /\ tick.seen[d].current_ip # Some(tick.retests[d].ip)

\* At the iteration where the condition becomes true nothing is written for
\* the domain and its timer is set to the time of the iteration
FirstTriggerOnlyRecords ==
    \A d \in DOMAIN tick.seen :
        (tick.seen[d].switch_triggered /\ tick.seen[d].pending_before = None)
        => /\ d \notin Range(tick.needs_switch)
           /\ d \notin bound_domains(tick.written)
           /\ tick.seen[d].pending_after = Some(tick.now)

\* C8, as it holds: at the first iteration t0 at which the switch condition
\* becomes true the health checker writes nothing and records
\* pending_switch_since = t0; when the condition has persisted through
\* t0 + 120 s and the domain is not in cooldown, that iteration asks for a
\* switch and makes at most one batch write: one when the re-test of
\* perform_switch succeeds with an address other than the bound one, none
\* when the re-test fails or finds the bound address again.
C8_SilentWindowThenAtMostOneWrite ==
    /\ FirstTriggerOnlyRecords
    /\ \A d \in DOMAIN tick.seen :
         window_elapsed(d) =>
            /\ d \in Range(tick.needs_switch)
            /\ tick.batch_writes <= 1
            /\ tick.batch_writes = 1 <=>
                  \E e \in Range(tick.needs_switch) : retest_found_other(e)
            /\ d \in bound_domains(tick.written) <=>
                  (retest_found_other(d) /\ tick.write_res = "Ok")

\* C8 witness: 120 s after the condition became true it still holds, and the
\* iteration re-pins the domain with one successful batch write.
C8_Witness ==
    /\ window_elapsed(A_TEST)
    /\ tick.now - tick.seen[A_TEST].pending_before[1] = 120
    /\ tick.batch_writes = 1 /\ tick.write_res = "Ok"
    /\ tick.seen[A_TEST].current_ip = Some(IP1)
    /\ read_binding(hosts, A_TEST) = Some(IP2)

\* C8, as claimed: nothing written at t0 and pending_switch_since = t0; the
\* condition having persisted through t0 + 120 s without cooldown, exactly one
\* batch write occurs at that iteration.
C8_ExactlyOneWrite ==
    /\ FirstTriggerOnlyRecords
    /\ \A d \in DOMAIN tick.seen : window_elapsed(d) => tick.batch_writes = 1

\* C9, as claimed: between any two successful switches of a domain by the
\* health checker at least 30 minutes pass, the health checker being stopped
\* and started again in between or not.
C9_CooldownBetweenSwitches ==
    \A d \in DOMAIN switch_log :
        \A i \in 1..(Len(switch_log[d]) - 1) :
            switch_log[d][i + 1] - switch_log[d][i] >= SWITCH_COOLDOWN_SECS

\* C10, as claimed: an iteration considers only the endpoints that are pinned
\* when it starts: it writes no binding for a domain that had none, and when
\* no endpoint is pinned it probes nothing and writes nothing.
C10_OnlyPinnedEndpoints ==
    /\ \A d \in DOMAIN tick.seen :
         tick.seen[d].current_ip = None => d \notin bound_domains(tick.written)
    /\ (\A d \in DOMAIN tick.seen : tick.seen[d].current_ip = None)
         => (tick.probes = 0 /\ tick.batch_writes = 0)

-----------------------------------------------------------------------------
(* Concurrent writers of the hosts file.  HostsManager::write_binding_to_path *)
(* opens the path, takes the exclusive lock on the file it opened, reads it,  *)
(* and atomic_write renames a new file over the path; the lock goes when the  *)
(* handle is dropped.  The helper reads and renames without a lock.  cc is    *)
(* [path, inodes, procs]: the file the path names, every file there is, and   *)
(* where each writer stands.                                                  *)

NumProcs == 2
Procs == 1..NumProcs

\* What each writer asks for: write_binding(domain, ip)
proc_domain(p) == IF p % 2 = 1 THEN A_TEST ELSE B_TEST
proc_ip(p) == IF p % 2 = 1 THEN IP1 ELSE IP2

NoContent == <<>>

ProcStart(mechanism) ==
    [pc |-> "start", mechanism |-> mechanism, fd |-> 0, content |-> NoContent,
     res |-> "none"]

Mechanisms(plat) == IF plat = "macos" THEN {"direct", "helper"} ELSE {"direct"}

InitConc ==
    /\ HostsStart(InitialFiles, {"linux", "macos"})
    /\ HcIdle
    /\ SwIdle
    /\ AppIdle
    /\ cc \in {[path |-> 1, inodes |-> <<hosts0>>,
                procs |-> [p \in Procs |-> ProcStart(m[p])]] :
               m \in [Procs -> Mechanisms(platform)]}

\* The writers that hold the exclusive lock on a file
lock_holders(i) ==
    {q \in Procs : cc.procs[q].fd = i /\ cc.procs[q].pc \in {"locked", "read", "written"}}

\* OpenOptions::new().read(true).write(true).open(path)
OpenHosts(p) ==
    /\ cc.procs[p].pc = "start" /\ cc.procs[p].mechanism = "direct"
    /\ cc' = [cc EXCEPT !.procs[p].pc = "opened", !.procs[p].fd = cc.path]
    /\ UNCHANGED hosts

\* file.lock_exclusive(): blocks until no one holds the lock of this file
LockExclusive(p) ==
    /\ cc.procs[p].pc = "opened"
    /\ lock_holders(cc.procs[p].fd) = {}
    /\ cc' = [cc EXCEPT !.procs[p].pc = "locked"]
    /\ UNCHANGED hosts

\* read_hosts_content(&mut file): the content of the file that was opened
ReadLocked(p) ==
    /\ cc.procs[p].pc = "locked"
    /\ cc' = [cc EXCEPT !.procs[p].pc = "read",
                        !.procs[p].content = cc.inodes[cc.procs[p].fd]]
    /\ UNCHANGED hosts

\* parse, insert, render, atomic_write(path, &new_content): a new file takes
\* the path
AtomicWrite(p) ==
    /\ cc.procs[p].pc = "read" /\ cc.procs[p].mechanism = "direct"
    /\ \E r \in {write_binding_to_path(cc.procs[p].content, proc_domain(p),
                                       proc_ip(p), "ok")} :
          /\ cc' = [cc EXCEPT !.procs[p].pc = "written",
                              !.inodes = Append(@, r.file),
                              !.path = Len(cc.inodes) + 1]
          /\ hosts' = r.file

\* Ok(()) and the drop of the handle, which releases the lock
DropHandle(p) ==
    /\ cc.procs[p].pc = "written"
    /\ cc' = [cc EXCEPT !.procs[p].pc = "done", !.procs[p].fd = 0,
                        !.procs[p].res = "Ok"]
    /\ UNCHANGED hosts

\* read_hosts_content() of the helper: File::open(HOSTS_PATH), read_to_end
HelperRead(p) ==
    /\ cc.procs[p].pc = "start" /\ cc.procs[p].mechanism = "helper"
    /\ cc' = [cc EXCEPT !.procs[p].pc = "read",
                        !.procs[p].content = cc.inodes[cc.path]]
    /\ UNCHANGED hosts

\* parse, insert, render, atomic_write of the helper, and exit 0
HelperAtomicWrite(p) ==
    /\ cc.procs[p].pc = "read" /\ cc.procs[p].mechanism = "helper"
    /\ \E r \in {helper_write_binding(cc.procs[p].content, proc_domain(p),
                                      proc_ip(p), "ok")} :
          /\ cc' = [cc EXCEPT !.procs[p].pc = "done",
                              !.procs[p].res = r.res,
                              !.inodes = Append(@, r.file),
                              !.path = Len(cc.inodes) + 1]
          /\ hosts' = r.file

ConcFrame ==
    UNCHANGED <<hosts0, platform, SERVICE_AVAILABLE, MACOS_HELPER_PATH,
                MACOS_HELPER_NEEDS_REFRESH, call, pinned, nops, hcVars, sw, appVars>>

NextConc ==
    \/ \E p \in Procs : OpenHosts(p) /\ ConcFrame
    \/ \E p \in Procs : LockExclusive(p) /\ ConcFrame
    \/ \E p \in Procs : ReadLocked(p) /\ ConcFrame
    \/ \E p \in Procs : AtomicWrite(p) /\ ConcFrame
    \/ \E p \in Procs : DropHandle(p) /\ ConcFrame
    \/ \E p \in Procs : HelperRead(p) /\ ConcFrame
    \/ \E p \in Procs : HelperAtomicWrite(p) /\ ConcFrame

SpecConc == InitConc /\ [][NextConc]_vars

\* C2, as claimed: when the writers, started concurrently, have all returned
\* success, the managed block of the hosts file holds the binding of each of
\* them: no update is lost.
C2_NoLostUpdate ==
    (\A p \in Procs : cc.procs[p].pc = "done" /\ cc.procs[p].res = "Ok")
    => \A p \in Procs :
          LET bindings == parse(read_hosts_content(cc.inodes[cc.path])).anyrouter_bindings
          IN  proc_domain(p) \in DOMAIN bindings /\ bindings[proc_domain(p)] = proc_ip(p)

\* What perform_check measured for the bound address of the domain at the
\* last iteration: the answer of test_endpoint when it is the best address,
\* the answer of test_ip on it otherwise
measured_current(d) ==
    IF tick.answers[d].result.success
       /\ tick.seen[d].current_ip = Some(tick.answers[d].result.ip)
    THEN tick.answers[d].result
    ELSE tick.answers[d].current

\* The candidate is better than the bound address by more than 20 % and by
\* more than 50 ms
meaningful_improvement(current_latency, new_latency) ==
    /\ (current_latency - new_latency) * 100 > 20 * current_latency
    /\ current_latency - new_latency > 50

\* C11, as claimed: when the bound address of a domain still works and the
\* best candidate is another address, the health checker writes a binding for
\* the domain only if the candidate is faster than the bound address by more
\* than 20 % and by more than 50 ms.
C11_SwitchNeedsMeaningfulImprovement ==
    \A d \in bound_domains(tick.written) :
        (tick.seen[d].current_ip # None /\ measured_current(d).success)
        => meaningful_improvement(measured_current(d).latency,
                                  tick.retests[d].latency)

-----------------------------------------------------------------------------
(* lib.rs: who starts and stops the loop of the health checker.  am is      *)
(* [auto_mode_token, cancel_token, cancelled, next, wrappers, loops,        *)
(* autostart, wf, cmds]: AppState.auto_mode_token (0 for None),             *)
(* HealthChecker.cancel_token, the tokens cancelled so far, the next fresh  *)
(* token, the tasks start_auto_mode and start_workflow spawned, the loops   *)
(* HealthChecker::start spawned, the auto-start task of setup, the          *)
(* start_workflow call in flight and the number of commands so far.         *)
(* The configuration has an enabled endpoint throughout.                    *)

MaxCommands == 3

DirectOk == [service |-> "down", helper |-> "absent", direct_fs |-> "ok"]

InitAuto ==
    /\ HostsStart({UnpinnedFile}, {"linux"})
    /\ HcIdle
    /\ SwIdle
    /\ CcIdle
    /\ et = <<>>
    /\ pipe = <<>>
    /\ am = [auto_mode_token |-> 0, cancel_token |-> 1, cancelled |-> {}, next |-> 2,
             wrappers |-> <<>>, loops |-> <<>>, autostart |-> "sleeping",
             wf |-> [pc |-> "idle", success_count |-> 0, already_running |-> FALSE],
             cmds |-> 0]

AutoFrame ==
    UNCHANGED <<hostsVars, hcVars, sw, cc, et, pipe>>

\* tauri::async_runtime::spawn(async move { reset_cancel_token(); start();
\* cancel_token.cancelled().await; *token = None; })
spawn_wrapper(a) ==
    [a EXCEPT !.auto_mode_token = a.next,
              !.next = a.next + 1,
              !.wrappers = Append(@, [token |-> a.next, pc |-> "reset"])]

\* if let Some(t) = token.take() { t.cancel(); checker.get_cancel_token().cancel(); }
take_and_cancel(a) ==
    IF a.auto_mode_token = 0 THEN a
    ELSE [a EXCEPT !.cancelled = @ \cup {a.auto_mode_token, a.cancel_token},
                   !.auto_mode_token = 0]

\* The task setup spawns: after 2 s it stores a new token and calls
\* checker.start, which spawns a loop with the checker's present token
AutoStart ==
    /\ am.autostart = "sleeping"
    /\ am' = [am EXCEPT !.autostart = "done",
                        !.auto_mode_token = am.next,
                        !.next = am.next + 1,
                        !.loops = Append(@, [token |-> am.cancel_token, alive |-> TRUE])]
    /\ AutoFrame

\* start_auto_mode
StartAutoMode ==
    /\ am.cmds < MaxCommands
    /\ am' = [(IF am.auto_mode_token # 0 THEN am ELSE spawn_wrapper(am))
                EXCEPT !.cmds = am.cmds + 1]
    /\ AutoFrame

\* checker_guard.reset_cancel_token() in the spawned task
WrapperReset(i) ==
    /\ am.wrappers[i].pc = "reset"
    /\ am' = [am EXCEPT !.cancel_token = am.next,
                        !.next = am.next + 1,
                        !.wrappers[i].pc = "start"]
    /\ AutoFrame

\* checker_guard.start(app_handle, config_clone) in the spawned task
WrapperStart(i) ==
    /\ am.wrappers[i].pc = "start"
    /\ am' = [am EXCEPT !.loops = Append(@, [token |-> am.cancel_token, alive |-> TRUE]),
                        !.wrappers[i].pc = "wait"]
    /\ AutoFrame

\* cancel_token.cancelled().await; *token = None in the spawned task
WrapperFinish(i) ==
    /\ am.wrappers[i].pc = "wait"
    /\ am.wrappers[i].token \in am.cancelled
    /\ am' = [am EXCEPT !.auto_mode_token = 0, !.wrappers[i].pc = "done"]
    /\ AutoFrame

\* stop_auto_mode
StopAutoMode ==
    /\ am.cmds < MaxCommands
    /\ am' = [take_and_cancel(am) EXCEPT !.cmds = am.cmds + 1]
    /\ AutoFrame

\* stop_workflow: stop the health checker, clear_all_anyfast_bindings,
\* flush_dns
StopWorkflow ==
    /\ am.cmds < MaxCommands
    /\ am' = [take_and_cancel(am) EXCEPT !.cmds = am.cmds + 1]
    /\ \E c \in {broker("clear_all_anyfast_bindings", NoArgs, platform, hosts,
                        SERVICE_AVAILABLE, MACOS_HELPER_PATH,
                        MACOS_HELPER_NEEDS_REFRESH, DirectOk)} :
       \E f \in {IF c.res = "Ok"
                 THEN broker("flush_dns", NoArgs, platform, c.file, c.sa, c.hp, c.hr,
                             DirectOk)
                 ELSE c} :
          /\ hosts' = c.file
          /\ SERVICE_AVAILABLE' = f.sa
          /\ MACOS_HELPER_PATH' = f.hp
          /\ MACOS_HELPER_NEEDS_REFRESH' = f.hr
    /\ UNCHANGED <<hosts0, platform, call, pinned, nops, hcVars, sw, cc, et, pipe>>

\* start_workflow, steps 1 to 3: test_all, the baselines, write_bindings_batch
\* and flush_dns for the successful results
StartWorkflowApply ==
    /\ am.cmds < MaxCommands
    /\ am.wf.pc = "idle"
    /\ \E r \in ProbeResults :
       \E w \in {IF r.success
                 THEN broker("write_bindings_batch",
                             [NoArgs EXCEPT !.bindings = <<Binding(A_TEST, r.ip)>>],
                             platform, hosts, SERVICE_AVAILABLE, MACOS_HELPER_PATH,
                             MACOS_HELPER_NEEDS_REFRESH, DirectOk)
                 ELSE [res |-> "Ok", file |-> hosts, sa |-> SERVICE_AVAILABLE,
                       hp |-> MACOS_HELPER_PATH, hr |-> MACOS_HELPER_NEEDS_REFRESH]} :
       \E f \in {IF r.success /\ w.res = "Ok"
                 THEN broker("flush_dns", NoArgs, platform, w.file, w.sa, w.hp, w.hr,
                             DirectOk)
                 ELSE w} :
          /\ hosts' = w.file
          /\ SERVICE_AVAILABLE' = f.sa
          /\ MACOS_HELPER_PATH' = f.hp
          /\ MACOS_HELPER_NEEDS_REFRESH' = f.hr
          /\ baselines' = IF r.success THEN insert(baselines, A_TEST, r.latency)
                          ELSE baselines
          /\ am' = [am EXCEPT !.cmds = am.cmds + 1,
                              !.wf = IF w.res = "Ok"
                                     THEN [pc |-> "applied",
                                           success_count |-> IF r.success THEN 1 ELSE 0,
                                           already_running |-> FALSE]
                                     ELSE am.wf]
    /\ UNCHANGED <<hosts0, platform, call, pinned, nops, config, clock, task, status,
                   tick, switch_log, hc_steps, sw, cc, et, pipe>>

\* start_workflow, step 4: let already_running = token.is_some()
StartWorkflowCheck ==
    /\ am.wf.pc = "applied"
    /\ am' = [am EXCEPT !.wf.pc = "checked",
                        !.wf.already_running = (am.auto_mode_token # 0)]
    /\ AutoFrame

\* start_workflow, step 4: if !already_running && success_count > 0 { ... }
StartWorkflowSpawn ==
    /\ am.wf.pc = "checked"
    /\ am' = [(IF ~am.wf.already_running /\ am.wf.success_count > 0
               THEN spawn_wrapper(am) ELSE am)
                EXCEPT !.wf.pc = "idle"]
    /\ AutoFrame

\* The loop of HealthChecker::start sees its token cancelled and breaks
LoopExit(i) ==
    /\ am.loops[i].alive
    /\ am.loops[i].token \in am.cancelled
    /\ am' = [am EXCEPT !.loops[i].alive = FALSE]
    /\ AutoFrame

NextAuto ==
    \/ AutoStart
    \/ StartAutoMode
    \/ \E i \in DOMAIN am.wrappers : WrapperReset(i)
    \/ \E i \in DOMAIN am.wrappers : WrapperStart(i)
    \/ \E i \in DOMAIN am.wrappers : WrapperFinish(i)
    \/ StopAutoMode
    \/ StopWorkflow
    \/ StartWorkflowApply
    \/ StartWorkflowCheck
    \/ StartWorkflowSpawn
    \/ \E i \in DOMAIN am.loops : LoopExit(i)

SpecAuto == InitAuto /\ [][NextAuto]_vars

\* The loops of the health checker that run and have not been told to stop
live_loops ==
    {i \in DOMAIN am.loops : am.loops[i].alive /\ am.loops[i].token \notin am.cancelled}

\* C12, as claimed: whatever the interleaving of the auto-start of setup,
\* start_auto_mode, stop_auto_mode, start_workflow and stop_workflow, at most
\* one loop of the health checker is alive.
C12_AtMostOneLoop == Cardinality(live_loops) <= 1

-----------------------------------------------------------------------------
(* models.rs and endpoint_tester.rs: the results of the tester.  An address *)
(* is <<prefix, host>>, an endpoint [name, domain], a latency a whole number *)
(* of milliseconds.  What do_https_test answers is a latency, or 0 when it   *)
(* fails or the 8 s of SINGLE_IP_TEST_TIMEOUT run out.                       *)

MAX_TEST_IPS == 15
SINGLE_IP_TEST_TIMEOUT_MS == 8000

NoIp == <<>>

\* EndpointResult::success
EndpointResult_success(endpoint, ip, latency) ==
    [endpoint |-> endpoint, ip |-> ip, latency |-> latency, success |-> TRUE,
     original_ip |-> NoIp, original_latency |-> 0, speedup_percent |-> 0,
     use_original |-> FALSE]

\* A speedup_percent that never goes below 0: max(0, ...), rounded down
speedup_clamped(latency, original_latency) ==
    IF original_latency > 0 /\ latency < FAILURE_LATENCY /\ latency < original_latency
    THEN ((original_latency - latency) * 100) \div original_latency
    ELSE 0

\* speedup_percent of success_with_comparison, rounded down to a whole number
speedup(latency, original_latency) ==
    IF original_latency > 0 /\ latency < FAILURE_LATENCY
    THEN ((original_latency - latency) * 100) \div original_latency
    ELSE 0

\* EndpointResult::success_with_comparison
success_with_comparison(endpoint, ip, latency, original_ip, original_latency) ==
    [endpoint |-> endpoint, ip |-> ip, latency |-> latency, success |-> TRUE,
     original_ip |-> original_ip, original_latency |-> original_latency,
     speedup_percent |-> speedup(latency, original_latency),
     use_original |-> (ip = original_ip)]

\* A failure that reports the latency 0
EndpointResult_failure_zero(endpoint, ip) ==
    [endpoint |-> endpoint, ip |-> ip, latency |-> 0, success |-> FALSE,
     original_ip |-> NoIp, original_latency |-> 0, speedup_percent |-> 0,
     use_original |-> FALSE]

\* EndpointResult::failure
EndpointResult_failure(endpoint, ip) ==
    [endpoint |-> endpoint, ip |-> ip, latency |-> FAILURE_LATENCY, success |-> FALSE,
     original_ip |-> NoIp, original_latency |-> 0, speedup_percent |-> 0,
     use_original |-> FALSE]

\* test_rounds.clamp(1, 5) of EndpointTester::new
clamp_rounds(test_rounds) ==
    IF test_rounds < 1 THEN 1 ELSE IF test_rounds > 5 THEN 5 ELSE test_rounds

\* latencies.sort_by(partial_cmp): insertion of one value into a sorted list
RECURSIVE sorted_insert(_, _)
sorted_insert(sorted, x) ==
    IF sorted = <<>> THEN <<x>>
    ELSE IF x < Head(sorted) THEN <<x>> \o sorted
    ELSE <<Head(sorted)>> \o sorted_insert(Tail(sorted), x)

RECURSIVE sort_latencies(_)
sort_latencies(latencies) ==
    IF latencies = <<>> THEN <<>>
    ELSE sorted_insert(sort_latencies(Front(latencies)), Last(latencies))

\* Before the first round of test_single_ip
NoRounds == [failed |-> FALSE, latencies |-> <<>>, attempts |-> 0]

\* One round of the loop of test_single_ip, answer being what do_https_test
\* answers under the timeout: the latency is kept, a failure ends the call
\* in the first round and is ignored in the later ones
one_round(run, answer) ==
    IF answer > 0
    THEN [run EXCEPT !.latencies = Append(@, answer), !.attempts = @ + 1]
    ELSE IF run.attempts = 0
    THEN [run EXCEPT !.failed = TRUE, !.attempts = 1]
    ELSE [run EXCEPT !.attempts = @ + 1]

\* for round in 0..rounds
rounds_over(rounds, run) == run.failed \/ run.attempts >= rounds

\* The loop of test_single_ip over the answers of its rounds
RECURSIVE single_ip_rounds(_, _, _)
single_ip_rounds(rounds, answers, run) ==
    IF rounds_over(rounds, run) THEN run
    ELSE single_ip_rounds(rounds, answers, one_round(run, answers[run.attempts + 1]))

\* An end of test_single_ip that reports the latency of the first round
single_ip_first(endpoint, ip, run) ==
    IF run.failed \/ run.latencies = <<>>
    THEN [result |-> EndpointResult_failure(endpoint, ip), attempts |-> run.attempts]
    ELSE [result |-> EndpointResult_success(endpoint, ip, run.latencies[1]),
          attempts |-> run.attempts]

\* The end of test_single_ip: the failure of the first round, no latency at
\* all, or the element in the middle of the sorted latencies
single_ip_result(endpoint, ip, run) ==
    IF run.failed \/ run.latencies = <<>>
    THEN [result |-> EndpointResult_failure(endpoint, ip), attempts |-> run.attempts]
    ELSE [result |-> EndpointResult_success(
                         endpoint, ip,
                         sort_latencies(run.latencies)[(Len(run.latencies) \div 2) + 1]),
          attempts |-> run.attempts]

\* EndpointTester::test_single_ip: [result, attempts]
test_single_ip(test_rounds, endpoint, ip, answers) ==
    single_ip_result(endpoint, ip, single_ip_rounds(test_rounds, answers, NoRounds))

-----------------------------------------------------------------------------
(* test_single_ip as a function of what its attempts answer.                *)

MaxRoundsArg == 6

\* What one do_https_test can answer: 0 for an error or a timeout
Answers == {0, 70, 90, 300}

SAMPLE_ENDPOINT == [name |-> "A", domain |-> "a.test"]
SAMPLE_IP == <<"10.0.0.", 1>>

TesterIdleRest ==
    HostsStart({UnpinnedFile}, {"linux"}) /\ HcIdle /\ SwIdle /\ CcIdle /\ am = <<>> /\ pipe = <<>>

TesterFrame == UNCHANGED <<hostsVars, hcVars, sw, cc, am, pipe>>

\* EndpointTester::new, and the answers the network holds for the coming call
InitSingle ==
    /\ TesterIdleRest
    /\ \E test_rounds \in 0..MaxRoundsArg, answers \in [1..5 -> Answers] :
           et = [asked |-> test_rounds, test_rounds |-> clamp_rounds(test_rounds),
                 answers |-> answers, out |-> None]

TestSingleIp ==
    /\ et.out = None
    /\ et' = [et EXCEPT !.out = Some(test_single_ip(et.test_rounds, SAMPLE_ENDPOINT,
                                                     SAMPLE_IP, et.answers))]
    /\ TesterFrame

NextSingle == TestSingleIp

SpecSingle == InitSingle /\ [][NextSingle]_vars

\* The successes among the first n answers, in the order of the rounds
RECURSIVE successful_attempts(_, _)
successful_attempts(answers, n) ==
    IF n = 0 THEN <<>>
    ELSE IF answers[n] > 0 THEN Append(successful_attempts(answers, n - 1), answers[n])
    ELSE successful_attempts(answers, n - 1)

SingleDone == et # <<>> /\ "out" \in DOMAIN et /\ et.out # None

\* How many values of a list lie below x, and how many do not lie above it
count_below(seq, x) == Cardinality({i \in 1..Len(seq) : seq[i] < x})
count_upto(seq, x) == Cardinality({i \in 1..Len(seq) : seq[i] <= x})

-----------------------------------------------------------------------------
(* test_endpoint step by step: the cancel check, the DNS lookup, the probe  *)
(* of the original address, the candidate tasks and the collector, with     *)
(* cancel() arriving between any two steps.                                 *)

MAX_IP_CONCURRENCY_PER_ENDPOINT == 6

CF_RANGES ==
    {"104.16.", "104.17.", "104.18.", "104.19.", "104.20.", "104.21.", "104.22.",
     "104.23.", "104.24.", "104.25.", "104.26.", "104.27.", "172.67.", "162.159."}

is_cloudflare_ip(ip) == ip[1] \in CF_RANGES

D1 == <<"10.0.0.", 1>>
D2 == <<"10.0.0.", 2>>
CF1 == <<"104.16.", 1>>
CF2 == <<"172.67.", 1>>

\* The preferred addresses a tester is built with
CustomLists == {<<>>, <<CF1>>, <<CF1, CF1>>}
\* The test_rounds a tester is built with, before the clamp
RoundsArgs == {0, 2}
\* What lookup_ip answers when it answers in time
DnsAnswers == {<<>>, <<D1>>, <<D1, D2>>, <<CF1>>}
\* What get_cf_ips answers
CfLists == {<<CF2>>, <<CF2, CF1, CF2>>}
\* What resolve_via_multi_dns answers
MultiDnsLists == {<<>>, <<D2, D1>>}
\* What one do_https_test answers under the timeout: 0 for an error or a
\* timeout, otherwise a latency up to the timeout
ProbeAnswers == {0, FastMs, SlowMs, SINGLE_IP_TEST_TIMEOUT_MS}

\* The loop of merge_candidate_ips: an address not seen before is pushed, and
\* the loop breaks once the list has reached the limit
RECURSIVE merge_into(_, _, _)
merge_into(merged, ips, limit) ==
    IF ips = <<>> THEN merged
    ELSE IF Head(ips) \in Range(merged) THEN merge_into(merged, Tail(ips), limit)
    ELSE IF Len(merged) + 1 >= limit THEN Append(merged, Head(ips))
    ELSE merge_into(Append(merged, Head(ips)), Tail(ips), limit)

\* A merge that puts the DNS addresses first
merge_dns_first(cf_ips, dns_ips, limit) == merge_into(<<>>, dns_ips \o cf_ips, limit)

merge_candidate_ips(cf_ips, dns_ips, limit) == merge_into(<<>>, cf_ips \o dns_ips, limit)

\* let test_ips = ...: the preferred addresses as they are, or the Cloudflare
\* list merged with the DNS addresses, or the DNS addresses merged with what
\* the public resolvers know
test_ips(custom_cf_ips, dns_ips, cf_ips, multi_dns_ips) ==
    IF custom_cf_ips # <<>> THEN custom_cf_ips
    ELSE IF \E i \in 1..Len(dns_ips) : is_cloudflare_ip(dns_ips[i])
    THEN merge_candidate_ips(cf_ips, dns_ips, MAX_TEST_IPS)
    ELSE merge_candidate_ips(dns_ips, multi_dns_ips, MAX_TEST_IPS)

\* join_set.spawn for every candidate: a task waits for its permit
spawn_tasks(ips) ==
    [i \in 1..Len(ips) |-> [ip |-> ips[i], state |-> "waiting", run |-> NoRounds]]

\* join_set.abort_all
abort_all(tasks) ==
    [i \in 1..Len(tasks) |->
        IF tasks[i].state \in {"waiting", "running"}
        THEN [tasks[i] EXCEPT !.state = "aborted"] ELSE tasks[i]]

\* The final selection of test_endpoint
final_result(endpoint, best, original, original_ip) ==
    LET original_latency == IF original.success THEN original.latency ELSE FAILURE_LATENCY
    IN  IF best # None
        THEN success_with_comparison(endpoint, best[1].ip, best[1].latency,
                                     original_ip, original_latency)
        ELSE IF original.success
        THEN success_with_comparison(endpoint, original.ip, original.latency,
                                     original_ip, original_latency)
        ELSE EndpointResult_failure(endpoint, original_ip)

InitTester ==
    /\ TesterIdleRest
    /\ \E custom_cf_ips \in CustomLists, test_rounds \in RoundsArgs :
           et = [custom_cf_ips |-> custom_cf_ips,
                 test_rounds |-> clamp_rounds(test_rounds),
                 cancelled |-> FALSE, pc |-> "idle", dns_ips |-> <<>>,
                 run |-> NoRounds, original |-> None, test_ips |-> <<>>,
                 tasks |-> <<>>, finished |-> <<>>, best |-> None, out |-> None,
                 late |-> {}]

\* EndpointTester::cancel
Cancel ==
    /\ ~et.cancelled
    /\ et' = [et EXCEPT !.cancelled = TRUE]
    /\ TesterFrame

\* test_endpoint up to its cancel check
BeginEndpoint ==
    /\ et.pc = "idle"
    /\ et' = IF et.cancelled
             THEN [et EXCEPT !.pc = "done",
                             !.out = Some(EndpointResult_failure(SAMPLE_ENDPOINT, NoIp))]
             ELSE [et EXCEPT !.pc = "dns"]
    /\ TesterFrame

\* The DNS lookup: an error, a timeout or no address end the test
DnsLookup ==
    /\ et.pc = "dns"
    /\ \E ok \in BOOLEAN, ips \in DnsAnswers :
           et' = IF ~ok \/ ips = <<>>
                 THEN [et EXCEPT !.pc = "done",
                                 !.out = Some(EndpointResult_failure(SAMPLE_ENDPOINT, NoIp))]
                 ELSE [et EXCEPT !.pc = "original", !.dns_ips = ips]
    /\ TesterFrame

\* One round of test_single_ip on the original address; after the last one
\* the candidates are chosen and their tasks spawned
OriginalRound ==
    /\ et.pc = "original"
    /\ \E answer \in ProbeAnswers, cf_ips \in CfLists, multi_dns_ips \in MultiDnsLists :
        \E run \in {one_round(et.run, answer)} :
           LET ips == test_ips(et.custom_cf_ips, et.dns_ips, cf_ips, multi_dns_ips)
               kind == IF et.cancelled THEN {"original"} ELSE {}
           IN  et' = IF rounds_over(et.test_rounds, run)
                     THEN [et EXCEPT
                             !.pc = "collect", !.run = NoRounds,
                             !.original = Some(single_ip_result(SAMPLE_ENDPOINT,
                                                   et.dns_ips[1], run).result),
                             !.test_ips = ips, !.tasks = spawn_tasks(ips),
                             !.late = @ \cup kind]
                     ELSE [et EXCEPT !.run = run, !.late = @ \cup kind]
    /\ TesterFrame

running(tasks) == {i \in 1..Len(tasks) : tasks[i].state = "running"}

\* ip_permit.acquire_owned in a candidate task
AcquirePermit(i) ==
    /\ et.pc = "collect"
    /\ et.tasks[i].state = "waiting"
    /\ Cardinality(running(et.tasks)) < MAX_IP_CONCURRENCY_PER_ENDPOINT
    /\ et' = [et EXCEPT !.tasks[i].state = "running"]
    /\ TesterFrame

\* One round of test_single_ip in a candidate task; after the last one the
\* task ends with its result and gives its permit back
CandidateRound(i) ==
    /\ et.pc = "collect"
    /\ et.tasks[i].state = "running"
    /\ \E answer \in ProbeAnswers :
        \E run \in {one_round(et.tasks[i].run, answer)} :
           LET kind == IF ~et.cancelled THEN {}
                       ELSE IF et.tasks[i].run.attempts = 0 THEN {"candidate"}
                       ELSE {"round"}
           IN  et' = IF rounds_over(et.test_rounds, run)
                     THEN [et EXCEPT
                             !.tasks[i].state = "done", !.tasks[i].run = run,
                             !.finished = Append(@, single_ip_result(SAMPLE_ENDPOINT,
                                                        et.tasks[i].ip, run).result),
                             !.late = @ \cup kind]
                     ELSE [et EXCEPT !.tasks[i].run = run, !.late = @ \cup kind]
    /\ TesterFrame

\* if best_result.is_none() || result.latency < best.latency
better(best, result) ==
    IF result.success /\ (best = None \/ result.latency < best[1].latency)
    THEN Some(result) ELSE best

\* One turn of the collector: the deadline and the cancel check abort every
\* task, otherwise the next finished task is joined; the end of the tasks
\* ends the loop
Collect ==
    /\ et.pc = "collect"
    /\ \E deadline \in BOOLEAN :
           IF deadline \/ et.cancelled
           THEN et' = [et EXCEPT !.pc = "final", !.tasks = abort_all(@)]
           ELSE IF et.finished # <<>>
           THEN et' = [et EXCEPT !.finished = Tail(@),
                                 !.best = better(@, Head(et.finished))]
           ELSE /\ \A i \in 1..Len(et.tasks) : et.tasks[i].state = "done"
                /\ et' = [et EXCEPT !.pc = "final"]
    /\ TesterFrame

\* The end of test_endpoint
FinishEndpoint ==
    /\ et.pc = "final"
    /\ et' = [et EXCEPT !.pc = "done",
                        !.out = Some(final_result(SAMPLE_ENDPOINT, et.best,
                                                  et.original[1], et.dns_ips[1]))]
    /\ TesterFrame

NextTester ==
    \/ Cancel
    \/ BeginEndpoint
    \/ DnsLookup
    \/ OriginalRound
    \/ \E i \in DOMAIN et.tasks : AcquirePermit(i)
    \/ \E i \in DOMAIN et.tasks : CandidateRound(i)
    \/ Collect
    \/ FinishEndpoint

SpecTester == InitTester /\ [][NextTester]_vars

\* C13: once cancel() has been called no do_https_test is started: no further
\* round of a probe, no probe of a candidate task that had not started, no
\* probe of an endpoint test that had not reached its candidates.
C13_NoProbeAfterCancel == et.late = {}

\* The candidates have been handed to the probe phase
candidates_chosen == et.pc \in {"collect", "final"} \/ (et.pc = "done" /\ et.original # None)

no_duplicates(seq) == \A i, j \in 1..Len(seq) : seq[i] = seq[j] => i = j

\* C14: the candidate list handed to the probe phase has at most 15 entries
\* and no address twice, whichever of the three rules made it.
C14_CandidatesBoundedAndDistinct ==
    candidates_chosen => Len(et.test_ips) <= MAX_TEST_IPS /\ no_duplicates(et.test_ips)

\* Every EndpointResult the endpoint test holds: of the original address, of
\* the candidate tasks that have ended, the best one, and the one it returns
produced_results ==
    Range(et.original) \cup Range(et.finished) \cup Range(et.best) \cup Range(et.out)
    \cup {single_ip_result(SAMPLE_ENDPOINT, et.tasks[i].ip, et.tasks[i].run).result :
             i \in {j \in DOMAIN et.tasks : et.tasks[j].state = "done"}}

\* C15: a failed result has latency 9999, a successful one a latency above 0
\* and below 9999.
C15_LatencyMatchesSuccess ==
    \A r \in produced_results :
        /\ ~r.success => r.latency = FAILURE_LATENCY
        /\ r.success => 0 < r.latency /\ r.latency < FAILURE_LATENCY

\* An endpoint test has returned a success after one of its candidates failed
C15_Witness ==
    /\ et.out # None
    /\ et.out[1].success
    /\ et.out[1].latency = SlowMs
    /\ \E i \in DOMAIN et.tasks :
           /\ et.tasks[i].state = "done"
           /\ ~single_ip_result(SAMPLE_ENDPOINT, et.tasks[i].ip, et.tasks[i].run).result.success

\* C16: speedup_percent of every result is at least 0, and for two measured
\* latencies it is max(0, (original_latency - latency) / original_latency * 100).
C16_SpeedupNeverNegative ==
    \A r \in produced_results :
        /\ r.speedup_percent >= 0
        /\ (r.success /\ r.original_latency \in 1..(FAILURE_LATENCY - 1)) =>
               r.speedup_percent = speedup_clamped(r.latency, r.original_latency)

-----------------------------------------------------------------------------
(* test_all: the spawn loop, the collection of what the endpoint tasks      *)
(* return, the results made up for the tasks that returned nothing, and the *)
(* sort.                                                                    *)

MaxEndpoints == 3

\* Three endpoints, two of them of the same domain
Endpoints ==
    {[name |-> "A", domain |-> "a.test"], [name |-> "A2", domain |-> "a.test"],
     [name |-> "B", domain |-> "b.test"]}

\* The lists of different endpoints test_all is called with
EndpointLists ==
    UNION {{l \in [1..n -> Endpoints] : \A i, j \in 1..n : l[i] = l[j] => i = j} :
              n \in 0..MaxEndpoints}

\* What becomes of an endpoint in test_all: no permit within 5 s, a task that
\* panics, a task aborted by the collector, or a task that returns a result
\* found fast, found slow or failed
Fates == {"starved", "panicked", "aborted", "fast", "slow", "failed"}

\* What test_endpoint returns to test_all
endpoint_outcome(endpoint, fate) ==
    IF fate = "fast" THEN success_with_comparison(endpoint, D1, FastMs, D1, FastMs)
    ELSE IF fate = "slow" THEN success_with_comparison(endpoint, CF1, SlowMs, D1, FastMs)
    ELSE EndpointResult_failure(endpoint, NoIp)

\* The comparator of results.sort_by: a success before a failure, otherwise
\* the smaller latency first
result_less(a, b) ==
    \/ a.success /\ ~b.success
    \/ a.success = b.success /\ a.latency < b.latency

RECURSIVE insert_result(_, _)
insert_result(sorted, x) ==
    IF sorted = <<>> THEN <<x>>
    ELSE IF result_less(x, Head(sorted)) THEN <<x>> \o sorted
    ELSE <<Head(sorted)>> \o insert_result(Tail(sorted), x)

\* A sort that leaves the list as it is
keep_order(results) == results

\* results.sort_by, a stable sort
RECURSIVE sort_results(_)
sort_results(results) ==
    IF results = <<>> THEN <<>>
    ELSE insert_result(sort_results(Front(results)), Last(results))

\* spawned_endpoints: in the order of the list, up to where the loop broke
\* off, without those that got no permit
RECURSIVE spawned_endpoints(_, _, _)
spawned_endpoints(endpoints, fates, upto) ==
    IF upto = 0 THEN <<>>
    ELSE IF fates[upto] = "starved" THEN spawned_endpoints(endpoints, fates, upto - 1)
    ELSE Append(spawned_endpoints(endpoints, fates, upto - 1), endpoints[upto])

\* The results made up after the collection: one failure per spawned
\* endpoint whose domain is not among the domains that returned
RECURSIVE synthesized(_, _)
synthesized(spawned, returned_domains) ==
    IF spawned = <<>> THEN <<>>
    ELSE IF Head(spawned).domain \notin returned_domains
    THEN <<EndpointResult_failure(Head(spawned), NoIp)>>
         \o synthesized(Tail(spawned), returned_domains)
    ELSE synthesized(Tail(spawned), returned_domains)

\* test_all after the collection
collected(spawned, results) ==
    sort_results(results \o synthesized(spawned, {results[i].endpoint.domain :
                                                     i \in 1..Len(results)}))

\* The orders in which the tasks of a set of positions can end
orders(positions) ==
    {o \in [1..Cardinality(positions) -> positions] :
        \A i, j \in DOMAIN o : o[i] = o[j] => i = j}

InitAll ==
    /\ TesterIdleRest
    /\ \E endpoints \in EndpointLists :
           et = [endpoints |-> endpoints, called |-> FALSE, spawned |-> <<>>,
                 fates |-> <<>>, returned |-> <<>>, out |-> <<>>]

\* EndpointTester::test_all: upto is where a cancel breaks the spawn loop off
TestAll ==
    /\ ~et.called
    /\ \E fates \in [DOMAIN et.endpoints -> Fates], upto \in 0..Len(et.endpoints) :
        \E spawned \in {spawned_endpoints(et.endpoints, fates, upto)} :
         \E o \in orders({i \in 1..upto : fates[i] \in {"fast", "slow", "failed"}}) :
          \E results \in {[k \in DOMAIN o |-> endpoint_outcome(et.endpoints[o[k]], fates[o[k]])]} :
           et' = [et EXCEPT !.called = TRUE, !.spawned = spawned,
                            !.fates = [i \in DOMAIN fates |->
                                          IF i <= upto THEN fates[i] ELSE "unspawned"],
                            !.returned = results,
                            !.out = IF et.endpoints = <<>> THEN <<>>
                                    ELSE collected(spawned, results)]
    /\ TesterFrame

NextAll == TestAll

SpecAll == InitAll /\ [][NextAll]_vars

AllDone == et # <<>> /\ "called" \in DOMAIN et /\ et.called

\* C18: the list test_all returns holds a result for every endpoint whose
\* task was spawned, also when endpoints share a domain.
C18_ResultForEverySpawned ==
    AllDone => \A i \in 1..Len(et.spawned) :
                   \E k \in 1..Len(et.out) : et.out[k].endpoint = et.spawned[i]

\* C19: in the list test_all returns no failure stands before a success, and
\* among the successes and among the failures the latencies ascend.
C19_SuccessesFirstThenLatency ==
    AllDone => \A i, j \in 1..Len(et.out) :
                   i < j => /\ et.out[j].success => et.out[i].success
                            /\ et.out[i].success = et.out[j].success =>
                                   et.out[i].latency <= et.out[j].latency

\* A slow success returned before a fast one and a failure before both
C19_Witness ==
    /\ AllDone
    /\ Len(et.returned) = 3
    /\ ~et.returned[1].success
    /\ et.returned[2].latency = SlowMs
    /\ et.returned[3].latency = FastMs
    /\ Len(et.out) = 3
    /\ et.out[1].latency = FastMs
    /\ ~et.out[3].success

-----------------------------------------------------------------------------
(* The managed block of a file that render has written.                     *)

positions_of(lines, marker) == {i \in 1..Len(lines) : lines[i] = marker}

\* The last call has rendered the file with at least one managed binding
rendered_with_bindings ==
    /\ call.op \in MutatingOps /\ call.res = "Ok" /\ call.changed
    /\ DOMAIN parse(hosts.lines).anyrouter_bindings # {}

\* C20: a rendered file with managed bindings holds one BEGIN line, then one
\* line <ip> TAB <domain> TAB '# anyFAST' per binding in ascending order of
\* the domains, then one END line, in whatever order the bindings came.
C20_BlockSortedOneLinePerBinding ==
    rendered_with_bindings =>
        LET lines == hosts.lines
            m == parse(lines).anyrouter_bindings
            n == Cardinality(DOMAIN m)
        IN  /\ \A d \in DOMAIN pinned : d \in DOMAIN m /\ m[d] = pinned[d]
            /\ \E b, e \in 1..Len(lines) :
                /\ positions_of(lines, MARKER_BEGIN) = {b}
                /\ positions_of(lines, MARKER_END) = {e}
                /\ e = b + n + 1
                /\ \A k \in 1..n :
                       \E d \in DOMAIN m :
                           /\ lines[b + k] = binding_line(m[d], d)
                           /\ Cardinality({o \in DOMAIN m : str_lt(o, d)}) = k - 1

\* b.test was bound first and a.test after it; the block lists a.test first
C20_Witness ==
    /\ rendered_with_bindings
    /\ nops = 2
    /\ call.op = "write_binding" /\ call.args.domain = A_TEST
    /\ read_binding(hosts0, A_TEST) = None
    /\ read_binding(hosts0, B_TEST) = None
    /\ B_TEST \in DOMAIN pinned
    /\ \E b \in 1..Len(hosts.lines) :
           /\ hosts.lines[b] = MARKER_BEGIN
           /\ b + 3 <= Len(hosts.lines)
           /\ hosts.lines[b + 1] = binding_line(pinned[A_TEST], A_TEST)
           /\ hosts.lines[b + 2] = binding_line(pinned[B_TEST], B_TEST)
           /\ hosts.lines[b + 3] = MARKER_END

-----------------------------------------------------------------------------
(* parse and render in a row, on files without BOM that hold one managed    *)
(* block with its BEGIN and END lines.                                      *)

MaxRenders == 2

\* The lines before the block, the binding lines in it, the lines after it
BeforeParts == {<<>>, <<L_USER>>, <<L_USER, L_EMPTY>>, <<L_NOTE, L_USER>>}
BlockParts == {<<L_BIND_A2>>, <<L_BIND_B1, L_BIND_A2>>}
AfterParts == {<<>>, <<L_NOTE>>, <<L_EMPTY>>, <<L_USER, L_EMPTY>>}

WellFormedFiles ==
    {File(FALSE, before \o <<MARKER_BEGIN>> \o block \o <<MARKER_END>> \o after, nl) :
        before \in BeforeParts, block \in BlockParts, after \in AfterParts, nl \in BOOLEAN}

InitRender ==
    /\ HostsStart(WellFormedFiles, {"linux"})
    /\ HcIdle /\ SwIdle /\ CcIdle /\ AppIdle

\* ParsedHosts::parse(&content).render() written back
Rerender ==
    /\ nops < MaxRenders
    /\ hosts' = render(parse(read_hosts_content(hosts)))
    /\ nops' = nops + 1
    /\ UNCHANGED <<hosts0, platform, SERVICE_AVAILABLE, MACOS_HELPER_PATH,
                   MACOS_HELPER_NEEDS_REFRESH, call, pinned, hcVars, sw, cc, appVars>>

NextRender == Rerender

SpecRender == InitRender /\ [][NextRender]_vars

-----------------------------------------------------------------------------
(* The hosts operations on files whose managed block holds lines that are   *)
(* no bindings, or lacks its END line.                                      *)

\* Two words that are no binding: the first one is no IP address
L_WORDS == <<"note", SP, "localhost">>

HarvestFiles ==
    {File(FALSE, <<L_USER, MARKER_BEGIN, L_BIND_A2, L_NOTE>>, TRUE),
     File(FALSE, <<L_USER, MARKER_BEGIN, L_BIND_A2, L_WORDS>>, TRUE),
     File(FALSE, <<MARKER_BEGIN, L_WORDS, L_BIND_B1, MARKER_END, L_USER>>, FALSE)}

InitHarvest ==
    /\ HostsStart(HarvestFiles, Platforms)
    /\ HcIdle /\ SwIdle /\ CcIdle /\ AppIdle

SpecHarvest == InitHarvest /\ [][Next]_vars

\* A line that reads as a binding: an IP address and at least one more word
is_binding_line(line) ==
    LET t == trim(line)
        parts == split_whitespace(t)
    IN  t # <<>> /\ ~starts_with_hash(t) /\ Len(parts) >= 2 /\ parse_IpAddr(parts[1])

\* The lines of a file after its first BEGIN line
lines_after_begin(lines) ==
    LET b == CHOOSE i \in positions_of(lines, MARKER_BEGIN) :
                 \A j \in positions_of(lines, MARKER_BEGIN) : i <= j
    IN  SubSeq(lines, b + 1, Len(lines))

\* The bindings the binding lines of a list of lines give, the later line
\* of a domain winning
RECURSIVE bindings_of(_)
bindings_of(lines) ==
    IF lines = <<>> THEN NoBindings
    ELSE LET parts == split_whitespace(trim(Last(lines)))
         IN  IF is_binding_line(Last(lines))
             THEN insert(bindings_of(Front(lines)), parts[2], parts[1])
             ELSE bindings_of(Front(lines))

occurrences(lines, line) == Cardinality(positions_of(lines, line))

\* The file at the start had a BEGIN line and no END line, and the first
\* call has written a binding
wrote_into_unclosed ==
    /\ positions_of(hosts0.lines, MARKER_BEGIN) # {}
    /\ positions_of(hosts0.lines, MARKER_END) = {}
    /\ nops = 1
    /\ call.op = "write_binding" /\ call.res = "Ok" /\ call.changed

\* C22: a write into a file with BEGIN and without END leaves one block with
\* its BEGIN and END lines that holds the bindings of the old block and the
\* new one and nothing else, and every other line of the old block once
\* after the END line.
C22_UnclosedBlockRecovered ==
    wrote_into_unclosed =>
        LET old == lines_after_begin(hosts0.lines)
            m == insert(bindings_of(old), call.args.domain, call.args.ip)
            lines == hosts.lines
        IN  \E b, e \in 1..Len(lines) :
                /\ positions_of(lines, MARKER_BEGIN) = {b}
                /\ positions_of(lines, MARKER_END) = {e}
                /\ b < e
                /\ {lines[i] : i \in (b + 1)..(e - 1)}
                       = {binding_line(m[d], d) : d \in DOMAIN m}
                /\ \A k \in 1..Len(old) :
                       ~is_binding_line(old[k]) =>
                           /\ occurrences(SubSeq(lines, e + 1, Len(lines)), old[k])
                                  = occurrences(old, old[k])
                           /\ occurrences(SubSeq(lines, 1, e), old[k]) = 0

valid_binding_line(line) ==
    LET parts == split_whitespace(trim(line))
    IN  /\ Len(parts) >= 2
        /\ validate_ip(parts[1]) = "Ok"
        /\ validate_domain(parts[2]) = "Ok"

\* C23: in a file a call has written, every line of the managed block has
\* an ip that parses and a valid domain, and no two lines have one domain.
C23_BlockLinesValid ==
    rendered_with_bindings =>
        LET lines == hosts.lines
        IN  \A b \in positions_of(lines, MARKER_BEGIN), e \in positions_of(lines, MARKER_END) :
                /\ \A i \in (b + 1)..(e - 1) : valid_binding_line(lines[i])
                /\ \A i, j \in (b + 1)..(e - 1) :
                       split_whitespace(lines[i])[2] = split_whitespace(lines[j])[2] => i = j

-----------------------------------------------------------------------------
(* The clear operations of the broker.                                      *)

\* C24: clear_binding of a domain without managed binding leaves the file as
\* it was, byte for byte, whichever mechanism served the call.
C24_ClearAbsentIsNoOp ==
    (/\ nops = 1
     /\ call.op = "clear_binding" /\ call.res = "Ok"
     /\ call.args.domain \notin DOMAIN parse(hosts0.lines).anyrouter_bindings)
        => hosts = hosts0

\* The managed bindings of a file
managed(file) == parse(file.lines).anyrouter_bindings

\* C25: the count clear_bindings_batch returns is the number of managed
\* bindings the call removed, the count clear_all_anyfast_bindings returns
\* the number of managed bindings the file held, whichever mechanism served
\* the call.
C25_ClearCountsAreRemovals ==
    (nops = 1 /\ call.res = "Ok") =>
        /\ call.op = "clear_bindings_batch" =>
               call.count = Cardinality(DOMAIN managed(hosts0) \ DOMAIN managed(hosts))
        /\ call.op = "clear_all_anyfast_bindings" =>
               /\ call.count = Cardinality(DOMAIN managed(hosts0))
               /\ DOMAIN managed(hosts) = {}

-----------------------------------------------------------------------------
(* service/pipe_server.rs: one client after the other on the message pipe.  *)
(* A message is its length in bytes and, when it fits, the request it holds. *)

BUFFER_SIZE == 65536
PARSE_ERROR == -32700
METHOD_NOT_FOUND == -32601
INTERNAL_ERROR == -32603
PERMISSION_DENIED == -1
INVALID_IP == -2
INVALID_DOMAIN == -3
IO_ERROR == -4

MaxMessages == 3
SmallMessage == 100

\* The lengths of the messages of the model: small, as long as the buffer,
\* one byte longer
MessageSizes == {SmallMessage, BUFFER_SIZE, BUFFER_SIZE + 1}

\* The requests of the model: the methods that touch the file or read it,
\* one the server does not know, and bytes that are no JSON
Requests ==
    {[method |-> "ping", args |-> NoArgs],
     [method |-> "write_binding", args |-> [NoArgs EXCEPT !.domain = A_TEST, !.ip = IP1]],
     [method |-> "write_binding", args |-> [NoArgs EXCEPT !.domain = A_TEST, !.ip = <<"999.9.9.9">>]],
     [method |-> "clear_binding", args |-> [NoArgs EXCEPT !.domain = A_TEST]],
     [method |-> "get_all_bindings", args |-> NoArgs],
     [method |-> "clear_all_anyfast_bindings", args |-> NoArgs],
     [method |-> "no json", args |-> NoArgs]}

\* hosts_error_to_response
hosts_error_code(res) ==
    CASE res = "PermissionDenied" -> PERMISSION_DENIED
      [] res = "InvalidIp" -> INVALID_IP
      [] res = "InvalidDomain" -> INVALID_DOMAIN
      [] OTHER -> IO_ERROR

\* PipeServer::handle_request: [code, size, file], code 0 for a success;
\* listed is the length of the answer of get_all_bindings, which grows with
\* the file
handle_request(req, file, fs, listed) ==
    IF req.method = "no json"
    THEN [code |-> PARSE_ERROR, size |-> SmallMessage, file |-> file]
    ELSE IF req.method = "ping"
    THEN [code |-> 0, size |-> SmallMessage, file |-> file]
    ELSE IF req.method = "get_all_bindings"
    THEN [code |-> IF fs = "ok" THEN 0 ELSE IO_ERROR,
          size |-> IF fs = "ok" THEN listed ELSE SmallMessage, file |-> file]
    ELSE IF req.method \in {"write_binding", "clear_binding"}
    THEN LET r == manager_op(req.method, req.args, file, fs)
         IN  [code |-> IF r.res = "Ok" THEN 0 ELSE hosts_error_code(r.res),
              size |-> SmallMessage, file |-> r.file]
    ELSE [code |-> METHOD_NOT_FOUND, size |-> SmallMessage, file |-> file]

\* The end of a turn of handle_client: a response longer than the buffer is
\* replaced by the error 'Response too large'
send_checked(response) ==
    IF response.size > BUFFER_SIZE THEN Some(INTERNAL_ERROR) ELSE Some(response.code)

InitPipe ==
    /\ HostsStart({UnpinnedFile, PinnedFile}, {"windows"})
    /\ HcIdle /\ SwIdle /\ CcIdle
    /\ am = <<>> /\ et = <<>>
    /\ pipe = [connected |-> FALSE, log |-> <<>>]

PipeFrame ==
    UNCHANGED <<hosts0, platform, SERVICE_AVAILABLE, MACOS_HELPER_PATH,
                MACOS_HELPER_NEEDS_REFRESH, call, pinned, nops, hcVars, sw, cc, am, et>>

\* wait_for_connection answers Ok(true): handle_client begins
ClientConnects ==
    /\ ~pipe.connected
    /\ pipe' = [pipe EXCEPT !.connected = TRUE]
    /\ hosts' = hosts
    /\ PipeFrame

\* ReadFile finds the pipe broken, or nothing comes for 30 s: handle_client
\* returns and the server disconnects
ClientLeaves ==
    /\ pipe.connected
    /\ pipe' = [pipe EXCEPT !.connected = FALSE]
    /\ hosts' = hosts
    /\ PipeFrame

\* One turn of the loop of handle_client on a message of the client.  A
\* message longer than the buffer makes ReadFile (or GetOverlappedResult)
\* fail with ERROR_MORE_DATA: handle_client returns Err, nothing is sent and
\* the server disconnects.
ClientSends ==
    /\ pipe.connected
    /\ Len(pipe.log) < MaxMessages
    /\ \E size \in MessageSizes, req \in Requests, fs \in {"ok", "Io"},
          listed \in MessageSizes :
         IF size > BUFFER_SIZE
         THEN /\ pipe' = [connected |-> FALSE,
                          log |-> Append(pipe.log,
                                         [request |-> size, response |-> 0,
                                          sent |-> None, file_changed |-> FALSE])]
              /\ hosts' = hosts
         ELSE \E response \in {handle_request(req, hosts, fs, listed)} :
              /\ pipe' = [pipe EXCEPT
                            !.log = Append(@, [request |-> size,
                                               response |-> response.size,
                                               sent |-> send_checked(response),
                                               file_changed |-> response.file # hosts])]
              /\ hosts' = response.file
    /\ PipeFrame

NextPipe == ClientConnects \/ ClientLeaves \/ ClientSends

SpecPipe == InitPipe /\ [][NextPipe]_vars

\* C26: a request or a response longer than 64 KiB is answered with the
\* error -32603, and a request that long leaves the hosts file alone.
C26_OversizeRefused ==
    \A i \in 1..Len(pipe.log) :
        /\ pipe.log[i].request > BUFFER_SIZE =>
               pipe.log[i].sent = Some(INTERNAL_ERROR) /\ ~pipe.log[i].file_changed
        /\ pipe.log[i].response > BUFFER_SIZE => pipe.log[i].sent = Some(INTERNAL_ERROR)

-----------------------------------------------------------------------------
(* health_checker.rs: runs long enough for the failure window to fill and    *)
(* drop its oldest entries.  a.test is pinned and has a baseline; the        *)
(* network has an outage or is congested.                                    *)

MaxLongTicks == 11

InitWindows ==
    /\ HealthStart({PinnedFile}, {"outage", "congestion"}, Configs)
    /\ baselines # NoBindings

LongTick == TickUpTo(MaxLongTicks)

NextWindows ==
    \/ StartHealthChecker
    \/ StopHealthChecker
    \/ LongTick

SpecWindows == InitWindows /\ [][NextWindows]_vars

\* The last n entries of a sequence
last_n(seq, n) == SubSeq(seq, max(1, Len(seq) - n + 1), Len(seq))

\* The number of failures at the end of a history of checks
RECURSIVE trailing_failures(_)
trailing_failures(h) ==
    IF h = <<>> \/ ~h[Len(h)].is_failure THEN 0
    ELSE 1 + trailing_failures(SubSeq(h, 1, Len(h) - 1))

failed_checks(h) == Cardinality({i \in 1..Len(h) : h[i].is_failure})
severe_checks(h) == Cardinality({i \in 1..Len(h) : h[i].severe_degraded})

\* The domains the last iteration checked, in the task that checked them
checked_domains == {d \in DOMAIN tick.seen : d \in DOMAIN hc_steps.history}

-----------------------------------------------------------------------------
(* health_checker.rs: two endpoints, both pinned and with a baseline, in a   *)
(* congested network: both can be authorized in the same iteration.          *)

MaxShortTicks == 4

TwoEndpoints ==
    [check_interval |-> 120, slow_threshold |-> 150, failure_threshold |-> 5,
     endpoints |-> <<[domain |-> A_TEST, enabled |-> TRUE],
                     [domain |-> B_TEST, enabled |-> TRUE]>>]

PinnedBoth == File(FALSE, <<L_USER, L_EMPTY, MARKER_BEGIN, binding_line(IP1, A_TEST),
                            binding_line(IP1, B_TEST), MARKER_END>>, FALSE)

InitBatch ==
    /\ HealthStart({PinnedBoth}, {"congestion"}, {TwoEndpoints})
    /\ baselines # NoBindings

ShortTick == TickUpTo(MaxShortTicks)

NextBatch ==
    \/ StartHealthChecker
    \/ StopHealthChecker
    \/ ShortTick

SpecBatch == InitBatch /\ [][NextBatch]_vars

\* The domains whose re-test in the last iteration found another address than
\* the one perform_check read for them
would_change ==
    {d \in Range(tick.needs_switch) :
        /\ tick.retests[d].success
        /\ tick.seen[d].current_ip # Some(tick.retests[d].ip)}

\* C28: in each iteration the authorized switches go into at most one batch
\* write; flush_dns is called exactly once when that write succeeded and
\* changed a binding, and never otherwise; when no binding would change there
\* is no write, no flush and no auto-switch notification.
C28_OneBatchOneFlush ==
    /\ tick.batch_writes <= 1
    /\ tick.write_res = "Ok" => bound_domains(tick.written) = would_change
    /\ tick.flushes = (IF tick.write_res = "Ok" /\ tick.changed # {} THEN 1 ELSE 0)
    /\ would_change = {} =>
           tick.batch_writes = 0 /\ tick.flushes = 0 /\ ~tick.notified
                                 /\ tick.changed = {}

\* Two domains are authorized in the same iteration and both re-tests find
\* another address: one write, one flush, one notification
C28_Witness ==
    /\ Cardinality(would_change) = 2
    /\ tick.batch_writes = 1
    /\ tick.write_res = "Ok"
    /\ tick.changed = would_change
    /\ tick.flushes = 1
    /\ tick.notified

\* An iteration with an authorized switch whose re-test finds the bound address
C28_WitnessSuppressed ==
    /\ tick.needs_switch # <<>>
    /\ would_change = {}
    /\ \E d \in Range(tick.needs_switch) : tick.retests[d].success

-----------------------------------------------------------------------------
(* lib.rs: apply_all_endpoints on the results the last speed test cached.    *)
(* am = [results, applies, returned]: AppState.results, the calls so far and *)
(* what the last call returned.                                              *)

MaxApplies == 2

\* Three endpoints of the configuration, two of them of the same domain
AppliedEndpoints ==
    {[name |-> "A", domain |-> A_TEST], [name |-> "A2", domain |-> A_TEST],
     [name |-> "B", domain |-> B_TEST]}

\* What test_endpoint found for an endpoint
found(endpoint, fate) ==
    IF fate = "fast" THEN EndpointResult_success(endpoint, IP1, FastMs)
    ELSE IF fate = "slow" THEN EndpointResult_success(endpoint, IP2, SlowMs)
    ELSE EndpointResult_failure(endpoint, NoIp)

\* What start_speed_test caches: the list test_all returned, sorted
CachedResults ==
    {sort_results([i \in DOMAIN l |-> found(l[i], fates[i])]) :
        l \in UNION {{e \in [1..n -> AppliedEndpoints] :
                         \A i, j \in 1..n : e[i] = e[j] => i = j} : n \in 0..3},
        fates \in [1..3 -> {"fast", "slow", "failed"}]}

InitApply ==
    /\ HostsStart({UnpinnedFile, PinnedFile}, Platforms)
    /\ HcIdle /\ SwIdle /\ CcIdle
    /\ et = <<>> /\ pipe = <<>>
    /\ \E results \in CachedResults :
           am = [results |-> results, applies |-> 0,
                 returned |-> [res |-> "none", count |-> 0]]

\* bindings of apply_all_endpoints: one for every successful result, in the
\* order of the cache
applied_bindings(results) ==
    LET ok == SelectSeq(results, LAMBDA r : r.success)
    IN  [i \in 1..Len(ok) |-> Binding(ok[i].endpoint.domain, ok[i].ip)]

\* baseline_updates of apply_all_endpoints, inserted in the order of the cache
RECURSIVE baseline_updates(_, _)
baseline_updates(b, results) ==
    IF results = <<>> THEN b
    ELSE baseline_updates(IF Head(results).success
                          THEN insert(b, Head(results).endpoint.domain,
                                      Head(results).latency)
                          ELSE b,
                          Tail(results))

\* apply_all_endpoints: the baselines, then one write_bindings_batch and
\* flush_dns; an error of either is returned
ApplyAllEndpoints ==
    /\ am.applies < MaxApplies
    /\ \E bindings \in {applied_bindings(am.results)} :
       \E env \in IF bindings = <<>>
                  THEN {[service |-> "down", helper |-> "absent", direct_fs |-> "ok"]}
                  ELSE Envs(platform) :
       \E w \in {IF bindings = <<>>
                 THEN [res |-> "Ok", count |-> 0, file |-> hosts,
                       sa |-> SERVICE_AVAILABLE, hp |-> MACOS_HELPER_PATH,
                       hr |-> MACOS_HELPER_NEEDS_REFRESH]
                 ELSE broker("write_bindings_batch", [NoArgs EXCEPT !.bindings = bindings],
                             platform, hosts, SERVICE_AVAILABLE, MACOS_HELPER_PATH,
                             MACOS_HELPER_NEEDS_REFRESH, env)} :
       \E f \in {IF bindings # <<>> /\ w.res = "Ok"
                 THEN broker("flush_dns", NoArgs, platform, w.file, w.sa, w.hp, w.hr, env)
                 ELSE w} :
          /\ hosts' = w.file
          /\ SERVICE_AVAILABLE' = f.sa
          /\ MACOS_HELPER_PATH' = f.hp
          /\ MACOS_HELPER_NEEDS_REFRESH' = f.hr
          /\ am' = [am EXCEPT !.applies = @ + 1,
                              !.returned = [res |-> IF w.res # "Ok" THEN w.res ELSE f.res,
                                            count |-> w.count]]
    /\ baselines' = baseline_updates(baselines, am.results)
    /\ UNCHANGED <<hosts0, platform, call, pinned, nops, config, clock, task, status,
                   tick, switch_log, hc_steps, sw, cc, et, pipe>>

NextApply == ApplyAllEndpoints

SpecApply == InitApply /\ [][NextApply]_vars

\* The successful cached results of a domain
successes_of(d) ==
    {i \in 1..Len(am.results) : am.results[i].success /\ am.results[i].endpoint.domain = d}

\* The addresses of the best results of a domain: the lowest latency
best_ips_of(d) ==
    {am.results[i].ip : i \in {k \in successes_of(d) :
                                  \A j \in successes_of(d) :
                                      am.results[k].latency <= am.results[j].latency}}

\* C29: after a call of apply_all_endpoints that returned Ok, every domain
\* with a successful cached result is pinned to the address of its best
\* result, and the count returned is the number of the domains pinned, also
\* when several results are of the same domain.
C29_BestPerDomainPinned ==
    am.applies > 0 /\ am.returned.res = "Ok" =>
        /\ \A d \in {A_TEST, B_TEST} :
               successes_of(d) # {} =>
                   \E ip \in best_ips_of(d) : read_binding(hosts, d) = Some(ip)
        /\ am.returned.count =
               Cardinality({d \in {A_TEST, B_TEST} : successes_of(d) # {}})

-----------------------------------------------------------------------------
(* The floors of the health checker under SpecHealth *)

\* C30: whatever is configured, a running health checker has a check
\* interval of at least 60 s, a slow threshold of at least 100 % and a failure
\* threshold of at least 3, and its clock advances by at least 60 s from one
\* iteration to the next.
C30_FloorsOfTheRunningChecker ==
    /\ [](task.alive =>
             /\ task.check_interval >= 60
             /\ task.slow_threshold >= 100
             /\ task.failure_threshold >= 3)
    /\ [][clock' # clock => clock' - clock >= 60]_vars

\* A checker configured below every floor has run an iteration
C30_Witness ==
    /\ task.alive
    /\ config.check_interval < 60
    /\ config.slow_threshold < 100
    /\ config.failure_threshold < 3
    /\ hc_steps.ticks > 0
    /\ clock > BootTime

-----------------------------------------------------------------------------
(* endpoint_tester.rs: merge_candidate_ips on its own.                       *)
(* et = [cf_ips, dns_ips, limit, out]                                        *)

MaxListLen == 3
MaxLimit == 3

MergeLists == SeqsUpTo({CF1, CF2, D1}, MaxListLen)

InitMerge ==
    /\ TesterIdleRest
    /\ \E cf_ips \in MergeLists, dns_ips \in MergeLists, limit \in 0..MaxLimit :
           et = [cf_ips |-> cf_ips, dns_ips |-> dns_ips, limit |-> limit, out |-> None]

MergeCandidateIps ==
    /\ et.out = None
    /\ et' = [et EXCEPT !.out = Some(merge_candidate_ips(et.cf_ips, et.dns_ips, et.limit))]
    /\ TesterFrame

NextMerge == MergeCandidateIps

SpecMerge == InitMerge /\ [][NextMerge]_vars

\* The elements of a sequence at the position of their first occurrence
first_occurrences(seq) ==
    LET keep == {i \in 1..Len(seq) : \A j \in 1..(i - 1) : seq[j] # seq[i]}
        RECURSIVE from(_)
        from(i) == IF i > Len(seq) THEN <<>>
                   ELSE IF i \in keep THEN <<seq[i]>> \o from(i + 1)
                   ELSE from(i + 1)
    IN  from(1)

\* The first n elements of a sequence, all of them when it is shorter
first_n(seq, n) == SubSeq(seq, 1, IF n < Len(seq) THEN n ELSE Len(seq))

MergeDone == et # <<>> /\ "limit" \in DOMAIN et /\ et.out # None

-----------------------------------------------------------------------------
(* The windows after a check that succeeded, under SpecHealth *)

\* The domains the running task checked in its last iteration
window_domains ==
    {d \in checked_domains : task.alive /\ d \in DOMAIN task.failure_windows}

\* C32: after a check of a domain that succeeded, the failure window and the
\* severe window of the domain hold no marking of an earlier check, so that no
\* failure from before a success counts towards a switch.
C32_WindowsResetOnSuccess ==
    \A d \in window_domains :
        LET h == hc_steps.history[d]
        IN  ~h[Len(h)].is_failure =>
                /\ count_true(task.failure_windows[d]) = 0
                /\ count_true(task.severe_windows[d])
                       = (IF h[Len(h)].severe_degraded THEN 1 ELSE 0)
                /\ tick.seen[d].switch_triggered => h[Len(h)].severe_degraded

-----------------------------------------------------------------------------
(* lib.rs: the batch tests of start_speed_test and start_workflow and        *)
(* stop_speed_test, each command a task of its own.                          *)
(* am = [tester, tests, stops]: AppState.tester, the commands that test      *)
(* ([kind, pc, cancelled], cancelled being the flag of the tester the        *)
(* command made), and what each stop_speed_test found and did.               *)

MaxTests == 2
MaxStops == 2

TestCommands == {"start_speed_test", "start_workflow"}

InitStop ==
    /\ HostsStart({UnpinnedFile}, {"linux"})
    /\ HcIdle /\ SwIdle /\ CcIdle
    /\ et = <<>> /\ pipe = <<>>
    /\ am = [tester |-> None, tests |-> <<>>, stops |-> <<>>]

StopFrame == UNCHANGED <<hostsVars, hcVars, sw, cc, et, pipe>>

\* The tests whose test_all is running
in_progress(tests) == {i \in DOMAIN tests : tests[i].pc = "testing"}

\* start_speed_test / start_workflow up to test_all: a new tester is made and
\* put into the slot of AppState
BeginTest ==
    /\ Len(am.tests) < MaxTests
    /\ \E kind \in TestCommands :
           am' = [am EXCEPT
                    !.tests = Append(@, [kind |-> kind, pc |-> "testing",
                                         cancelled |-> FALSE]),
                    !.tester = Some(Len(am.tests) + 1)]
    /\ StopFrame

\* test_all returns, or the timeout of 60 s around it fires and the command
\* cancels its own tester
TestEnds(i) ==
    /\ am.tests[i].pc = "testing"
    /\ \E timed_out \in BOOLEAN :
           am' = [am EXCEPT !.tests[i].pc = "clearing",
                            !.tests[i].cancelled = @ \/ timed_out]
    /\ StopFrame

\* *t = None, whichever tester the slot holds, and the rest of the command
ClearTester(i) ==
    /\ am.tests[i].pc = "clearing"
    /\ am' = [am EXCEPT !.tests[i].pc = "done", !.tester = None]
    /\ StopFrame

\* stop_speed_test: the tester of the slot, if any, is taken and cancelled
StopSpeedTest ==
    /\ Len(am.stops) < MaxStops
    /\ LET tests == IF am.tester = None THEN am.tests
                    ELSE [am.tests EXCEPT ![am.tester[1]].cancelled = TRUE]
       IN  am' = [tester |-> None,
                  tests |-> tests,
                  stops |-> Append(am.stops,
                                   [running |-> in_progress(am.tests),
                                    cancelled |-> {i \in DOMAIN tests :
                                                      tests[i].cancelled}])]
    /\ StopFrame

NextStop ==
    \/ BeginTest
    \/ \E i \in DOMAIN am.tests : TestEnds(i)
    \/ \E i \in DOMAIN am.tests : ClearTester(i)
    \/ StopSpeedTest

SpecStop == InitStop /\ [][NextStop]_vars

\* C33: every batch test that is in progress when stop_speed_test runs has its
\* cancel flag set when stop_speed_test returns, also when two tests were
\* started and one of them has finished.
C33_StopCancelsEveryRunningTest ==
    \A k \in 1..Len(am.stops) : am.stops[k].running \subseteq am.stops[k].cancelled

-----------------------------------------------------------------------------
(* What an iteration leaves in the maps, under SpecBatch *)

\* The value of a map for a key, None when there is none
lookup(m, k) == IF k \in DOMAIN m THEN Some(m[k]) ELSE None

\* C34: an iteration whose batch write fails reports no switch and leaves
\* the baselines and last_switch_times as they were; an iteration whose batch
\* write succeeds sets both for exactly the domains it re-pinned, and counts
\* them.
C34_MapsFollowTheWrite ==
    task.alive /\ checked_domains # {} =>
        LET repinned == IF tick.write_res = "Ok" THEN bound_domains(tick.written)
                        ELSE {}
        IN  /\ status.switch_count = tick.before.switch_count + Cardinality(repinned)
            /\ tick.notified = (repinned # {})
            /\ \A d \in {A_TEST, B_TEST} :
                  IF d \in repinned
                  THEN /\ lookup(baselines, d) = Some(tick.retests[d].latency)
                       /\ lookup(task.last_switch_times, d) = Some(tick.now)
                       /\ read_binding(hosts, d) = Some(tick.retests[d].ip)
                  ELSE /\ lookup(baselines, d) = lookup(tick.before.baselines, d)
                       /\ lookup(task.last_switch_times, d)
                              = lookup(tick.before.last_switch_times, d)

\* An iteration whose batch write for a.test was refused
C34_Witness ==
    /\ tick.write_res = "PermissionDenied"
    /\ A_TEST \in would_change
    /\ tick.written = <<>>
    /\ ~tick.notified
    /\ status.switch_count = 0
    /\ A_TEST \notin DOMAIN task.last_switch_times

-----------------------------------------------------------------------------
(* The result of test_endpoint, under SpecTester *)

\* The endpoint test has gone through its candidates and returned
EndpointDone ==
    et # <<>> /\ "pc" \in DOMAIN et /\ et.pc = "done" /\ et.original # None

\* The result of the candidate task i
candidate_result(i) == single_ip_result(SAMPLE_ENDPOINT, et.tasks[i].ip, et.tasks[i].run).result

\* The candidate tasks whose probe succeeded
succeeded_candidates ==
    {i \in DOMAIN et.tasks : et.tasks[i].state = "done" /\ candidate_result(i).success}

\* C35: test_endpoint returns the address and latency of the successful
\* candidate probe with the smallest latency if a candidate probe succeeded,
\* else the original address and its latency if its probe succeeded, else a
\* failure with the original address.
C35_BestCandidateElseOriginal ==
    EndpointDone =>
        LET out == et.out[1]
            original == et.original[1]
        IN  IF succeeded_candidates # {}
            THEN /\ out.success
                 /\ \E i \in succeeded_candidates :
                       /\ \A j \in succeeded_candidates :
                              candidate_result(i).latency <= candidate_result(j).latency
                       /\ out.ip = et.tasks[i].ip
                       /\ out.latency = candidate_result(i).latency
            ELSE IF original.success
            THEN out.success /\ out.ip = original.ip /\ out.latency = original.latency
            ELSE ~out.success /\ out.ip = et.dns_ips[1]

-----------------------------------------------------------------------------
(* endpoint_tester.rs: the two semaphores.  A batch of test_all whose first  *)
(* endpoint test is followed through its candidate tasks; what the probes    *)
(* answer is left out.                                                       *)
(* et = [endpoints, next, pc, tasks, candidates]: the state of the task of   *)
(* each endpoint, the position of the spawn loop, and the candidate phase of *)
(* the first endpoint test.                                                  *)

MAX_ENDPOINT_CONCURRENCY == 6
MaxCandidates == 7
MaxBatchEndpoints == 7

\* A semaphore with a permit for every endpoint
max_concurrency_unbounded(endpoint_count) == endpoint_count

\* endpoints.len().clamp(1, MAX_ENDPOINT_CONCURRENCY)
max_concurrency(endpoint_count) ==
    IF endpoint_count < 1 THEN 1
    ELSE IF endpoint_count > MAX_ENDPOINT_CONCURRENCY THEN MAX_ENDPOINT_CONCURRENCY
    ELSE endpoint_count

\* The batches: one endpoint with up to MaxCandidates candidates, or up to
\* MaxBatchEndpoints endpoints, the first with one candidate
InitPermits ==
    /\ TesterIdleRest
    /\ \E n \in 1..MaxBatchEndpoints, m \in 1..MaxCandidates :
        /\ n = 1 \/ m = 1
        /\ et = [endpoints |-> [i \in 1..n |-> "unspawned"], next |-> 1,
                 pc |-> "idle", candidates |-> m, tasks |-> <<>>]

running_endpoints(endpoints) == {i \in DOMAIN endpoints : endpoints[i] = "running"}

\* The spawn loop of test_all gets a permit for the next endpoint and spawns
\* its task; the task of the first endpoint spawns its candidate tasks
SpawnEndpoint ==
    /\ et.next <= Len(et.endpoints)
    /\ Cardinality(running_endpoints(et.endpoints)) < max_concurrency(Len(et.endpoints))
    /\ et' = [et EXCEPT
                !.endpoints[et.next] = "running",
                !.next = @ + 1,
                !.pc = IF et.next = 1 THEN "collect" ELSE @,
                !.tasks = IF et.next = 1
                          THEN spawn_tasks([i \in 1..et.candidates |-> <<"104.16.", i>>])
                          ELSE @]
    /\ TesterFrame

\* No permit within 5 s: the endpoint is skipped
PermitTimeout ==
    /\ et.next <= Len(et.endpoints)
    /\ Cardinality(running_endpoints(et.endpoints)) >= max_concurrency(Len(et.endpoints))
    /\ et' = [et EXCEPT !.endpoints[et.next] = "skipped", !.next = @ + 1]
    /\ TesterFrame

\* A candidate task ends its probe and drops its permit
ProbeEnds(i) ==
    /\ et.pc = "collect"
    /\ et.tasks[i].state = "running"
    /\ et' = [et EXCEPT !.tasks[i].state = "done"]
    /\ TesterFrame

\* The deadline of the candidate phase or a cancel: join_set.abort_all
AbortCandidates ==
    /\ et.pc = "collect"
    /\ \E i \in DOMAIN et.tasks : et.tasks[i].state \in {"waiting", "running"}
    /\ et' = [et EXCEPT !.tasks = abort_all(@)]
    /\ TesterFrame

\* The task of an endpoint ends and drops its permit; the first one when its
\* candidate tasks have ended
EndpointEnds(i) ==
    /\ et.endpoints[i] = "running"
    /\ i = 1 => \A k \in DOMAIN et.tasks : et.tasks[k].state \in {"done", "aborted"}
    /\ et' = [et EXCEPT !.endpoints[i] = "done",
                        !.pc = IF i = 1 THEN "done" ELSE @]
    /\ TesterFrame

NextPermits ==
    \/ SpawnEndpoint
    \/ PermitTimeout
    \/ \E i \in DOMAIN et.tasks : AcquirePermit(i)
    \/ \E i \in DOMAIN et.tasks : ProbeEnds(i)
    \/ AbortCandidates
    \/ \E i \in DOMAIN et.endpoints : EndpointEnds(i)

SpecPermits == InitPermits /\ [][NextPermits]_vars

\* C36: at most 6 candidate probes of an endpoint are in flight, and at most
\* min(endpoint_count, 6) endpoint tests of a batch run at the same time.
C36_PermitsBoundTheTasksInFlight ==
    /\ Cardinality(running(et.tasks)) <= 6
    /\ Cardinality(running_endpoints(et.endpoints))
           <= (IF Len(et.endpoints) < 6 THEN Len(et.endpoints) ELSE 6)

\* Seven endpoints: six tests run, the seventh has got no permit
C36_Witness ==
    /\ Len(et.endpoints) = 7
    /\ Cardinality(running_endpoints(et.endpoints)) = 6
    /\ et.endpoints[7] = "skipped"

\* Seven candidates: six probes in flight, the seventh waits for a permit
C36_WitnessCandidates ==
    /\ Len(et.tasks) = 7
    /\ Cardinality(running(et.tasks)) = 6
    /\ \E i \in DOMAIN et.tasks : et.tasks[i].state = "waiting"

-----------------------------------------------------------------------------
(* endpoint_tester.rs: get_cf_ips and the cache of the online list.  Every   *)
(* speed test, workflow and iteration of the health checker makes a tester   *)
(* of its own with EndpointTester::new.                                      *)
(* et = [testers, fetches]: per tester its cache (online_cf_ips) and the     *)
(* position of each endpoint test that asks for the list; the requests sent  *)
(* to the online API so far.                                                 *)

MaxTesters == 2
MaxGetters == 2

\* Who makes a tester
TesterMakers == {"start_speed_test", "start_workflow", "perform_check"}

InitFetch ==
    /\ TesterIdleRest
    /\ et = [testers |-> <<>>, fetches |-> 0]

\* EndpointTester::new(vec![]): no preferred addresses, nothing cached
NewTester ==
    /\ Len(et.testers) < MaxTesters
    /\ \E maker \in TesterMakers :
           et' = [et EXCEPT !.testers = Append(@, [maker |-> maker, cached |-> FALSE,
                                                   getters |-> <<>>])]
    /\ TesterFrame

\* get_cf_ips up to the fetch: the cache is looked at under its lock, which
\* is given back before the request
GetCfIps(t) ==
    /\ Len(et.testers[t].getters) < MaxGetters
    /\ et' = [et EXCEPT !.testers[t].getters =
                            Append(@, IF et.testers[t].cached THEN "cached" ELSE "fetching")]
    /\ TesterFrame

\* fetch_online_cf_ips answers (the online list or the default one) and the
\* answer is put into the cache
FetchReturns(t, k) ==
    /\ et.testers[t].getters[k] = "fetching"
    /\ et' = [et EXCEPT !.testers[t].getters[k] = "fetched",
                        !.testers[t].cached = TRUE,
                        !.fetches = @ + 1]
    /\ TesterFrame

NextFetch ==
    \/ NewTester
    \/ \E t \in DOMAIN et.testers : GetCfIps(t)
    \/ \E t \in DOMAIN et.testers : \E k \in DOMAIN et.testers[t].getters : FetchReturns(t, k)

SpecFetch == InitFetch /\ [][NextFetch]_vars

\* C37: the online list is fetched at most once per process.
C37_OneFetchPerProcess == et.fetches <= 1

-----------------------------------------------------------------------------
(* The helper against the in-process hosts I/O.                              *)

\* C38: the file a mutation served by the helper leaves is the file
\* HostsManager would have left for the same content and arguments, also
\* for a file whose managed block has no END line.
C38_HelperLeavesTheInProcessFile ==
    (/\ nops = 1
     /\ call.op \in MutatingOps
     /\ call.mechanism = "helper" /\ call.res = "Ok")
        => hosts = manager_op(call.op, call.args, hosts0, "ok").file

-----------------------------------------------------------------------------
(* The time budget of test_all and the timeout its callers put around it.   *)
(* Times are whole seconds; now counts from the call of test_all.           *)

DNS_LOOKUP_TIMEOUT == 10
IP_TEST_TOTAL_TIMEOUT == 45
MIN_WORKFLOW_TIMEOUT == 60
MAX_WORKFLOW_TIMEOUT == 180
COLLECT_TIMEOUT_HEADROOM == 5

\* The Duration::from_secs(60) of tokio::time::timeout in start_speed_test
\* and start_workflow
SPEED_TEST_TIMEOUT == 60

MaxEndpointCount == 13
MaxSpawnSecs == 2

clamp(x, lo, hi) == IF x < lo THEN lo ELSE IF x > hi THEN hi ELSE x

div_ceil(a, b) == (a + b - 1) \div b

saturating_sub(a, b) == IF a >= b THEN a - b ELSE 0

\* estimate_test_timeout, in seconds
estimate_test_timeout(endpoint_count) ==
    IF endpoint_count = 0 THEN MIN_WORKFLOW_TIMEOUT
    ELSE LET concurrency == clamp(endpoint_count, 1, MAX_ENDPOINT_CONCURRENCY)
             batches == div_ceil(endpoint_count, concurrency)
             per_endpoint_budget == DNS_LOOKUP_TIMEOUT
                                    + (SINGLE_IP_TEST_TIMEOUT_MS \div 1000)
                                    + IP_TEST_TOTAL_TIMEOUT
             estimated_secs == batches * per_endpoint_budget + 15
         IN  clamp(estimated_secs, MIN_WORKFLOW_TIMEOUT, MAX_WORKFLOW_TIMEOUT)

\* collect_timeout of test_all
collect_timeout(spawned) ==
    saturating_sub(estimate_test_timeout(spawned), COLLECT_TIMEOUT_HEADROOM)

DeadlineCallers == {"start_speed_test", "start_workflow"}

\* The caller has called test_all inside its timeout; the endpoint tasks are
\* spawned and collect_start is taken some seconds later
InitDeadline ==
    /\ TesterIdleRest
    /\ \E caller \in DeadlineCallers, n \in 1..MaxEndpointCount, s \in 0..MaxSpawnSecs :
           et = [caller |-> caller, endpoint_count |-> n, now |-> s, collect_start |-> s,
                 pending |-> n, results |-> 0, phase |-> "collecting",
                 ended_by |-> "none", returned |-> 0]

\* A second passes while the future of test_all is alive
SecondPasses ==
    /\ et.phase = "collecting"
    /\ et.now < SPEED_TEST_TIMEOUT
    /\ et' = [et EXCEPT !.now = @ + 1]
    /\ TesterFrame

\* join_next gives the result of an endpoint task
JoinNext ==
    /\ et.phase = "collecting"
    /\ et.pending > 0
    /\ ~(et.now - et.collect_start > collect_timeout(et.endpoint_count))
    /\ et' = [et EXCEPT !.pending = @ - 1, !.results = @ + 1]
    /\ TesterFrame

\* The collecting loop of test_all ends: the budget is used up and the tasks
\* left are aborted, or join_next has no task left.  Every endpoint without
\* result gets a failure record and the list is returned.
CollectEnds ==
    /\ et.phase = "collecting"
    /\ \/ et.now - et.collect_start > collect_timeout(et.endpoint_count)
       \/ et.pending = 0
    /\ et' = [et EXCEPT !.phase = "returned",
                        !.ended_by = IF et.now - et.collect_start
                                          > collect_timeout(et.endpoint_count)
                                     THEN "deadline" ELSE "all_done",
                        !.returned = et.endpoint_count]
    /\ TesterFrame

\* tokio::time::timeout of the caller fires: the future of test_all is
\* dropped with what it had collected and the command returns its error
OuterTimeout ==
    /\ et.phase = "collecting"
    /\ et.now >= SPEED_TEST_TIMEOUT
    /\ et' = [et EXCEPT !.phase = "timed_out", !.ended_by = "outer_timeout"]
    /\ TesterFrame

NextDeadline ==
    \/ SecondPasses
    \/ JoinNext
    \/ CollectEnds
    \/ OuterTimeout

SpecDeadline == InitDeadline /\ [][NextDeadline]_vars

\* C39: for every number of endpoints from one on the collecting budget of
\* test_all, estimate_test_timeout less the headroom of 5 seconds, is
\* shorter than the timeout of the caller, and no call whose collecting has
\* used up its budget ends by the timeout of the caller.
C39_CollectDeadlineBeforeOuterTimeout ==
    /\ collect_timeout(et.endpoint_count) < SPEED_TEST_TIMEOUT
    /\ et.phase = "timed_out" =>
           ~(et.now - et.collect_start > collect_timeout(et.endpoint_count))

\* The value the specification gives for the estimate
EstimateAsSpecified ==
    estimate_test_timeout(et.endpoint_count)
        = clamp(div_ceil(et.endpoint_count, clamp(et.endpoint_count, 1, 6)) * 63 + 15, 60, 180)

-----------------------------------------------------------------------------
(* stop_workflow against an iteration of the health checker that is under   *)
(* way.  am is [auto_mode_token, cancel_token, cancelled, loop, cmds,       *)
(* stopped]; loop is the task HealthChecker::start spawned: its token, its  *)
(* place (sleeping in the select, in perform_check, in perform_switch) and  *)
(* the endpoints perform_check returned in needs_switch.  stopped tells     *)
(* that stop_workflow has returned Ok and no apply has followed.            *)

MaxFlowCommands == 3

NeedsSwitch == {<<A_TEST>>, <<B_TEST>>, <<A_TEST, B_TEST>>}

\* start_workflow has written the bindings and started the health checker
InitInflight ==
    /\ HostsStart({PinnedFile, PinnedBoth}, {"linux"})
    /\ HcIdle /\ SwIdle /\ CcIdle /\ et = <<>> /\ pipe = <<>>
    /\ am = [auto_mode_token |-> 2, cancel_token |-> 3, cancelled |-> {},
             loop |-> [token |-> 3, alive |-> TRUE, pc |-> "sleeping",
                       needs_switch |-> <<>>],
             cmds |-> 0, stopped |-> FALSE]

InflightFrame ==
    UNCHANGED <<hosts0, platform, call, pinned, nops, hcVars, sw, cc, et, pipe>>

\* The select of the loop: the sleep is over and the token is not cancelled
LoopWakes ==
    /\ am.loop.alive /\ am.loop.pc = "sleeping"
    /\ am.loop.token \notin am.cancelled
    /\ am' = [am EXCEPT !.loop.pc = "checking"]
    /\ UNCHANGED <<hostsVars, hcVars, sw, cc, et, pipe>>

\* The select of the loop: the token is cancelled
LoopBreaks ==
    /\ am.loop.alive /\ am.loop.pc = "sleeping"
    /\ am.loop.token \in am.cancelled
    /\ am' = [am EXCEPT !.loop.alive = FALSE]
    /\ UNCHANGED <<hostsVars, hcVars, sw, cc, et, pipe>>

\* perform_check returns; perform_switch is called when needs_switch is not
\* empty
PerformCheckReturns ==
    /\ am.loop.pc = "checking"
    /\ \E needs_switch \in NeedsSwitch \cup {<<>>} :
           am' = [am EXCEPT !.loop.pc = IF needs_switch = <<>> THEN "sleeping"
                                        ELSE "switching",
                            !.loop.needs_switch = needs_switch]
    /\ UNCHANGED <<hostsVars, hcVars, sw, cc, et, pipe>>

\* perform_switch: the endpoints are tested again and the bindings written
\* with write_bindings_batch; the loop goes back to its select
PerformSwitchWrites ==
    /\ am.loop.pc = "switching"
    /\ \E results \in [{A_TEST, B_TEST} -> ProbeResults] :
       \E w \in {LET bindings == switch_bindings(collect_switches(am.loop.needs_switch,
                                                                   results, hosts))
                 IN  IF bindings = <<>>
                     THEN [res |-> "Ok", file |-> hosts, sa |-> SERVICE_AVAILABLE,
                           hp |-> MACOS_HELPER_PATH, hr |-> MACOS_HELPER_NEEDS_REFRESH]
                     ELSE broker("write_bindings_batch",
                                 [NoArgs EXCEPT !.bindings = bindings],
                                 platform, hosts, SERVICE_AVAILABLE, MACOS_HELPER_PATH,
                                 MACOS_HELPER_NEEDS_REFRESH, DirectOk)} :
          /\ hosts' = w.file
          /\ SERVICE_AVAILABLE' = w.sa
          /\ MACOS_HELPER_PATH' = w.hp
          /\ MACOS_HELPER_NEEDS_REFRESH' = w.hr
    /\ am' = [am EXCEPT !.loop.pc = "sleeping", !.loop.needs_switch = <<>>]
    /\ InflightFrame

\* stop_workflow: the tokens are cancelled, clear_all_anyfast_bindings,
\* flush_dns
StopWorkflowReturns ==
    /\ am.cmds < MaxFlowCommands
    /\ \E env \in {DirectOk, [DirectOk EXCEPT !.direct_fs = "PermissionDenied"]} :
       \E c \in {broker("clear_all_anyfast_bindings", NoArgs, platform, hosts,
                        SERVICE_AVAILABLE, MACOS_HELPER_PATH,
                        MACOS_HELPER_NEEDS_REFRESH, env)} :
       \E f \in {IF c.res = "Ok"
                 THEN broker("flush_dns", NoArgs, platform, c.file, c.sa, c.hp, c.hr, env)
                 ELSE c} :
          /\ hosts' = c.file
          /\ SERVICE_AVAILABLE' = f.sa
          /\ MACOS_HELPER_PATH' = f.hp
          /\ MACOS_HELPER_NEEDS_REFRESH' = f.hr
          /\ am' = [am EXCEPT !.cancelled = IF am.auto_mode_token = 0 THEN @
                                            ELSE @ \cup {am.auto_mode_token, am.cancel_token},
                              !.auto_mode_token = 0,
                              !.cmds = @ + 1,
                              !.stopped = (c.res = "Ok" /\ f.res = "Ok") \/ @]
    /\ InflightFrame

\* apply_endpoint: write_binding, flush_dns
ApplyEndpointReturns ==
    /\ am.cmds < MaxFlowCommands
    /\ \E d \in {A_TEST, B_TEST}, ip \in {IP1, IP2} :
       \E w \in {broker("write_binding", [NoArgs EXCEPT !.domain = d, !.ip = ip],
                        platform, hosts, SERVICE_AVAILABLE, MACOS_HELPER_PATH,
                        MACOS_HELPER_NEEDS_REFRESH, DirectOk)} :
          /\ hosts' = w.file
          /\ SERVICE_AVAILABLE' = w.sa
          /\ MACOS_HELPER_PATH' = w.hp
          /\ MACOS_HELPER_NEEDS_REFRESH' = w.hr
    /\ am' = [am EXCEPT !.cmds = @ + 1, !.stopped = FALSE]
    /\ InflightFrame

NextInflight ==
    \/ LoopWakes
    \/ LoopBreaks
    \/ PerformCheckReturns
    \/ PerformSwitchWrites
    \/ StopWorkflowReturns
    \/ ApplyEndpointReturns

SpecInflight == InitInflight /\ [][NextInflight]_vars

\* C40: from the return of a successful stop_workflow to the next apply the
\* managed block is empty: no iteration of the health checker that was
\* under way when stop_workflow was called writes a binding afterwards.
C40_BlockStaysEmptyAfterStop ==
    am.stopped => DOMAIN managed(hosts) = {}

====
